---------------------------- MODULE Spec2Model ----------------------------
(***************************************************************************)
(* A model of the DevCoach backend's queue scorer                          *)
(* (backend/services/scoring_service.py).                                  *)
(*                                                                         *)
(* Python values are modelled as follows.                                  *)
(*   - an int is an Int; None-able values are wrapped: None is {} and a    *)
(*     value v is {v};                                                     *)
(*   - a str that the code inspects (priority) is the sequence of its      *)
(*     characters; a str that the code only builds (explanation) is a      *)
(*     string, with the em dash U+2014 written as backslash u2014;       *)
(*   - a dict is a function from its keys; a missing key is not in the     *)
(*     DOMAIN;                                                             *)
(*   - a float is an IEEE-754 binary64 number m * 2^e with                 *)
(*     2^52 <= m < 2^53, the mantissa m held as a little-endian sequence   *)
(*     of limbs in base 2^15 (every score is positive and normal);         *)
(*   - objects live in a heap (a sequence of dicts); a list is a sequence  *)
(*     of references (heap indexes), so that aliasing and in-place         *)
(*     mutation are observable.                                            *)
(***************************************************************************)
EXTENDS Integers, Sequences, FiniteSets, TLC

(***************************************************************************)
(* Natural numbers of any size: little-endian limbs in base 2^15, no       *)
(* leading zero limb, zero is << >>.                                       *)
(***************************************************************************)
Base == 2^15

RECURSIVE Pow2(_)
Pow2(n) == IF n = 0 THEN 1 ELSE 2 * Pow2(n - 1)

RECURSIVE BigNorm(_)
BigNorm(a) ==
    IF a = << >> THEN << >>
    ELSE IF a[Len(a)] = 0 THEN BigNorm(SubSeq(a, 1, Len(a) - 1))
    ELSE a

RECURSIVE BigFromInt(_)
BigFromInt(n) ==
    IF n = 0 THEN << >> ELSE <<n % Base>> \o BigFromInt(n \div Base)

\* a * k + c, for 0 <= k < Base and 0 <= c < Base
RECURSIVE BigMulSmall(_, _, _)
BigMulSmall(a, k, c) ==
    IF a = << >> THEN BigFromInt(c)
    ELSE LET t == Head(a) * k + c
         IN  BigNorm(<<t % Base>> \o BigMulSmall(Tail(a), k, t \div Base))

\* a + b + c, for c in 0..1
RECURSIVE BigAdd(_, _, _)
BigAdd(a, b, c) ==
    IF a = << >> /\ b = << >> THEN BigFromInt(c)
    ELSE LET x == IF a = << >> THEN 0 ELSE Head(a)
             y == IF b = << >> THEN 0 ELSE Head(b)
             t == x + y + c
             ra == IF a = << >> THEN << >> ELSE Tail(a)
             rb == IF b = << >> THEN << >> ELSE Tail(b)
         IN  <<t % Base>> \o BigAdd(ra, rb, t \div Base)

RECURSIVE BigMul(_, _)
BigMul(a, b) ==
    IF b = << >> \/ a = << >> THEN << >>
    ELSE LET rest == BigMul(a, Tail(b))
         IN  BigAdd(BigMulSmall(a, Head(b), 0),
                    IF rest = << >> THEN << >> ELSE <<0>> \o rest, 0)

\* quotient and remainder of a by d, for 0 < d < Base
RECURSIVE BigDivModSmall(_, _)
BigDivModSmall(a, d) ==
    IF a = << >> THEN [q |-> << >>, r |-> 0]
    ELSE LET hi  == BigDivModSmall(Tail(a), d)
             cur == hi.r * Base + Head(a)
         IN  [q |-> BigNorm(<<cur \div d>> \o hi.q), r |-> cur % d]

RECURSIVE BigShl(_, _)
BigShl(a, n) ==
    IF a = << >> THEN << >>
    ELSE IF n >= 15 THEN <<0>> \o BigShl(a, n - 15)
    ELSE BigMulSmall(a, Pow2(n), 0)

RECURSIVE BigShr(_, _)
BigShr(a, n) ==
    IF a = << >> THEN << >>
    ELSE IF n >= 15 THEN BigShr(Tail(a), n - 15)
    ELSE BigDivModSmall(a, Pow2(n)).q

RECURSIVE BitLen(_)
BitLen(n) == IF n = 0 THEN 0 ELSE 1 + BitLen(n \div 2)

BigBitLen(a) ==
    IF a = << >> THEN 0 ELSE 15 * (Len(a) - 1) + BitLen(a[Len(a)])

BigIsOdd(a) == a # << >> /\ Head(a) % 2 = 1

\* -1, 0, 1 as a < b, a = b, a > b
RECURSIVE BigCmp(_, _)
BigCmp(a, b) ==
    IF Len(a) # Len(b) THEN (IF Len(a) < Len(b) THEN -1 ELSE 1)
    ELSE IF a = << >> THEN 0
    ELSE IF a[Len(a)] # b[Len(b)]
         THEN (IF a[Len(a)] < b[Len(b)] THEN -1 ELSE 1)
    ELSE BigCmp(SubSeq(a, 1, Len(a) - 1), SubSeq(b, 1, Len(b) - 1))

\* n * 2^(-s) rounded to an integer, ties to even; inexact says that the
\* true value is a little above n
BigRoundShr(n, s, inexact) ==
    LET q2     == BigShr(n, s - 1)
        sticky == inexact \/ BigShl(q2, s - 1) # n
        q      == BigShr(q2, 1)
        up     == BigIsOdd(q2) /\ (sticky \/ BigIsOdd(q))
    IN  IF up THEN BigAdd(q, << >>, 1) ELSE q

(***************************************************************************)
(* binary64 arithmetic, round to nearest, ties to even.                    *)
(***************************************************************************)
\* the double nearest to n * 2^e (a little above it when inexact), for a
\* bignum n of at least 55 bits
RoundToDouble(n, e, inexact) ==
    LET s == BigBitLen(n) - 53
        m == BigRoundShr(n, s, inexact)
    IN  IF BigBitLen(m) = 54
        THEN [m |-> BigShr(m, 1), e |-> e + s + 1]
        ELSE [m |-> m, e |-> e + s]

\* the double nearest to n / d, for a bignum n > 0 and 0 < d < Base: a
\* decimal literal (1.3 is 13 / 10), float(int), and int / int
FloatOfRatio(n, d) ==
    LET qr == BigDivModSmall(BigShl(n, 75), d)
    IN  RoundToDouble(qr.q, -75, qr.r # 0)

FloatMul(x, y) == RoundToDouble(BigMul(x.m, y.m), x.e + y.e, FALSE)

\* x / n for a float x and an int n in 1 .. Base - 1
FloatDivInt(x, n) ==
    LET qr == BigDivModSmall(BigShl(x.m, 75), n)
    IN  RoundToDouble(qr.q, x.e - 75, qr.r # 0)

FloatLess(x, y) == x.e < y.e \/ (x.e = y.e /\ BigCmp(x.m, y.m) < 0)

\* round(x, ndigits) of a float x >= 0.5 * 10^-ndigits: the
\* decimal with ndigits places nearest to the exact value of x, ties to
\* even, and then the double nearest to that decimal
PyRoundTicks(x, ndigits) ==
    BigRoundShr(BigMulSmall(x.m, 10^ndigits, 0), 0 - x.e, FALSE)

PyRound(x, ndigits) == FloatOfRatio(PyRoundTicks(x, ndigits), 10^ndigits)


(***************************************************************************)
(* Python values.                                                          *)
(***************************************************************************)
None == {}
Some(v) == {v}
TheValue(o) == CHOOSE v \in o : TRUE

\* d.get(k, default)
Get(d, k, default) == IF k \in DOMAIN d THEN d[k] ELSE default

\* d[k] = v on a dict
DictSet(d, k, v) == [j \in DOMAIN d \cup {k} |-> IF j = k THEN v ELSE d[j]]

UpperCase == <<"A", "B", "C", "D", "E", "F", "G", "H", "I", "J", "K", "L", "M",
               "N", "O", "P", "Q", "R", "S", "T", "U", "V", "W", "X", "Y", "Z">>
LowerCase == <<"a", "b", "c", "d", "e", "f", "g", "h", "i", "j", "k", "l", "m",
               "n", "o", "p", "q", "r", "s", "t", "u", "v", "w", "x", "y", "z">>

\* str.lower() on ASCII text
LowerChar(c) ==
    IF \E i \in 1..26 : UpperCase[i] = c
    THEN LowerCase[CHOOSE i \in 1..26 : UpperCase[i] = c]
    ELSE c

Lower(s) == [i \in 1..Len(s) |-> LowerChar(s[i])]

RECURSIVE Reversed(_)
Reversed(s) == IF s = << >> THEN << >> ELSE Append(Reversed(Tail(s)), Head(s))

\* sep.join(parts)
RECURSIVE Join(_, _)
Join(parts, sep) ==
    IF parts = << >> THEN ""
    ELSE IF Len(parts) = 1 THEN parts[1]
    ELSE parts[1] \o sep \o Join(Tail(parts), sep)

\* the float literals of scoring_service.py, by their text
FloatLiteral ==
    ("1.0" :> FloatOfRatio(BigFromInt(10), 10))
    @@ ("1.3" :> FloatOfRatio(BigFromInt(13), 10))
    @@ ("1.5" :> FloatOfRatio(BigFromInt(15), 10))
    @@ ("2.0" :> FloatOfRatio(BigFromInt(20), 10))

\* the priority strings the code compares with
critical == <<"c", "r", "i", "t", "i", "c", "a", "l">>
blocker  == <<"b", "l", "o", "c", "k", "e", "r">>
high     == <<"h", "i", "g", "h">>

(***************************************************************************)
(* scoring_service.py                                                      *)
(***************************************************************************)
SP_TIER_MAP == << <<1, 1>>, <<2, 2>>, <<3, 2>>, <<5, 3>>, <<8, 4>>, <<13, 5>> >>

\* (variant: the loop with sp < threshold)
RECURSIVE TierLoopStrict(_, _)
TierLoopStrict(sp, i) ==
    IF i > Len(SP_TIER_MAP) THEN 5
    ELSE IF sp < SP_TIER_MAP[i][1] THEN SP_TIER_MAP[i][2]
    ELSE TierLoopStrict(sp, i + 1)

\* the for loop of story_points_to_tier, from entry i on
RECURSIVE TierLoop(_, _)
TierLoop(sp, i) ==
    IF i > Len(SP_TIER_MAP) THEN 5
    ELSE IF sp <= SP_TIER_MAP[i][1] THEN SP_TIER_MAP[i][2]
    ELSE TierLoop(sp, i + 1)

story_points_to_tier(sp) ==
    IF sp = None \/ TheValue(sp) <= 0 THEN 3
    ELSE TierLoop(TheValue(sp), 1)

\* (variant: the priority compared as it is spelt)
PriorityAsSpelt(item) ==
    LET p == Get(item, "priority", None)
    IN  IF p = None \/ TheValue(p) = << >> THEN << >> ELSE TheValue(p)

\* (item.get("priority") or "").lower()
PriorityOf(item) ==
    LET p == Get(item, "priority", None)
    IN  Lower(IF p = None \/ TheValue(p) = << >> THEN << >> ELSE TheValue(p))

\* (variant: a comment or an assignment gives 1.5)
familiarity_either(item) ==
    IF Get(item, "user_commented", FALSE)
       \/ Get(item, "is_assigned_to_user", FALSE) THEN "1.5"
    ELSE "1.0"

\* (variant: a record without user_commented counts as commented)
familiarity_default_true(item) ==
    IF Get(item, "user_commented", TRUE) THEN "1.5"
    ELSE IF Get(item, "is_assigned_to_user", FALSE) THEN "1.3"
    ELSE "1.0"

\* (variant: the assignment is looked at before the comment)
familiarity_assigned_first(item) ==
    IF Get(item, "is_assigned_to_user", FALSE) THEN "1.3"
    ELSE IF Get(item, "user_commented", FALSE) THEN "1.5"
    ELSE "1.0"

\* the literal chosen for familiarity_bonus
familiarity_bonus(item) ==
    IF Get(item, "user_commented", FALSE) THEN "1.5"
    ELSE IF Get(item, "is_assigned_to_user", FALSE) THEN "1.3"
    ELSE "1.0"

\* (variant: the review request is looked at before the priority)
urgency_review_first(item) ==
    LET priority == PriorityOf(item)
    IN  IF Get(item, "awaiting_review_from_user", FALSE) THEN "1.3"
        ELSE IF priority \in {critical, blocker} THEN "2.0"
        ELSE IF priority = high THEN "1.5"
        ELSE "1.0"

\* the literal chosen for urgency_multiplier
urgency_multiplier(item) ==
    LET priority == PriorityOf(item)
    IN  IF priority \in {critical, blocker} THEN "2.0"
        ELSE IF priority = high THEN "1.5"
        ELSE IF Get(item, "awaiting_review_from_user", FALSE) THEN "1.3"
        ELSE "1.0"

\* (variant: the urgency multiplier capped at 1.5)
ScoreArithCapped(tier, fam, urg) ==
    FloatMul(FloatMul(FloatDivInt(FloatLiteral["1.0"], tier),
                      FloatLiteral[fam]),
             FloatLiteral[IF urg = "2.0" THEN "1.5" ELSE urg])

\* (1.0 / tier) * familiarity_bonus * urgency_multiplier, left to right
ScoreArith(tier, fam, urg) ==
    FloatMul(FloatMul(FloatDivInt(FloatLiteral["1.0"], tier),
                      FloatLiteral[fam]),
             FloatLiteral[urg])

\* ScoreArith on every operand the code can give it
ScoreTable ==
    [tier \in 1..5 |-> [fam \in {"1.5", "1.3", "1.0"} |->
        [urg \in {"2.0", "1.5", "1.3", "1.0"} |-> ScoreArith(tier, fam, urg)]]]

\* round(score, 4) on every score of ScoreTable
RoundTable ==
    [score \in {ScoreTable[tier][fam][urg] :
                   tier \in 1..5, fam \in {"1.5", "1.3", "1.0"},
                   urg \in {"2.0", "1.5", "1.3", "1.0"}}
        |-> PyRound(score, 4)]

\* the float 0.0 (the other floats of the model are positive)
FloatZero == [m |-> << >>, e |-> 0]

\* x >= y for a float x >= 0 and a float y > 0
FloatAtLeast(x, y) == x # FloatZero /\ ~FloatLess(x, y)

\* the float just below the float x (the last limb of x.m is not 0)
FloatBelow(x) == [m |-> [x.m EXCEPT ![1] = @ - 1], e |-> x.e]

\* _PETER_ANNOTATION_RATE = 0.8
PETER_ANNOTATION_RATE == FloatOfRatio(BigFromInt(8), 10)

\* annotated_blocks / total_blocks as a float, for the ratios 79 / 100,
\* 4 / 5, 81 / 100 and 3 / 3, and the float just below 0.8
RateTable ==
    [under       |-> FloatOfRatio(BigFromInt(79), 100),
     below       |-> FloatBelow(PETER_ANNOTATION_RATE),
     four_fifths |-> FloatOfRatio(BigFromInt(4), 5),
     over        |-> FloatOfRatio(BigFromInt(81), 100),
     all         |-> FloatOfRatio(BigFromInt(3), 3)]

\* The float results the scorer can compute, and the floats the coaching
\* policy is given.  They are worked out once, in Init, and held in the
\* variable fpu, which no action changes: the code's arithmetic is looked
\* up there.
FloatUnit ==
    [score |-> ScoreTable, round4 |-> RoundTable,
     rate |-> RateTable, peter_rate |-> PETER_ANNOTATION_RATE]

VARIABLES fpu

\* (variant: story points of 0 or less give a score of 0.0)
confidence_score_zero(item, github_username) ==
    LET sp   == Get(item, "story_points", None)
        tier == story_points_to_tier(sp)
    IN  IF sp # None /\ TheValue(sp) <= 0 THEN FloatZero
        ELSE fpu.score[tier][familiarity_bonus(item)][urgency_multiplier(item)]

confidence_score(item, github_username) ==
    LET sp   == Get(item, "story_points", None)
        tier == story_points_to_tier(sp)
    IN  fpu.score[tier][familiarity_bonus(item)][urgency_multiplier(item)]

\* round(score, 4)
\* (variant: round(score, 2))
RoundScoreTwoPlaces(score) == PyRound(score, 2)

RoundScore(score) ==
    IF score \in DOMAIN fpu.round4 THEN fpu.round4[score]
    ELSE PyRound(score, 4)

\* the scope reason of _build_explanation
ScopeReasons(item) ==
    LET sp == Get(item, "story_points", None)
    IN  IF sp # None
        THEN LET tier == story_points_to_tier(sp)
             IN  IF tier <= 2
                 THEN <<"small scope (" \o ToString(TheValue(sp))
                          \o " SP \\u2014 good for a focused session)">>
                 ELSE IF tier >= 4
                 THEN <<"larger scope (" \o ToString(TheValue(sp))
                          \o " SP \\u2014 plan accordingly)">>
                 ELSE << >>
        ELSE << >>

\* (variant: the comment reason put before the review reason)
ReasonsCommentFirst(item) ==
    LET priority == PriorityOf(item)
        r1 == IF priority \in {critical, blocker}
              THEN <<"marked as critical/blocker">>
              ELSE IF priority = high THEN <<"high priority">>
              ELSE << >>
        r2 == IF Get(item, "user_commented", FALSE)
              THEN Append(r1, "you have prior context from a comment") ELSE r1
        r3 == IF Get(item, "awaiting_review_from_user", FALSE)
              THEN Append(r2, "your review has been requested") ELSE r2
        r4 == IF Get(item, "is_assigned_to_user", FALSE)
              THEN Append(r3, "assigned to you") ELSE r3
        r5 == r4 \o ScopeReasons(item)
    IN  IF r5 = << >>
        THEN <<"good fit based on difficulty tier and queue position">>
        ELSE r5

\* (variant: the fallback reason appended to whatever reasons there are)
ReasonsAlwaysFallback(item) ==
    LET priority == PriorityOf(item)
        r1 == IF priority \in {critical, blocker}
              THEN <<"marked as critical/blocker">>
              ELSE IF priority = high THEN <<"high priority">>
              ELSE << >>
        r2 == IF Get(item, "awaiting_review_from_user", FALSE)
              THEN Append(r1, "your review has been requested") ELSE r1
        r3 == IF Get(item, "is_assigned_to_user", FALSE)
              THEN Append(r2, "assigned to you") ELSE r2
        r4 == IF Get(item, "user_commented", FALSE)
              THEN Append(r3, "you have prior context from a comment") ELSE r3
        r5 == r4 \o ScopeReasons(item)
    IN  Append(r5, "good fit based on difficulty tier and queue position")

Reasons(item) ==
    LET priority == PriorityOf(item)
        r1 == IF priority \in {critical, blocker}
              THEN <<"marked as critical/blocker">>
              ELSE IF priority = high THEN <<"high priority">>
              ELSE << >>
        r2 == IF Get(item, "awaiting_review_from_user", FALSE)
              THEN Append(r1, "your review has been requested") ELSE r1
        r3 == IF Get(item, "is_assigned_to_user", FALSE)
              THEN Append(r2, "assigned to you") ELSE r2
        r4 == IF Get(item, "user_commented", FALSE)
              THEN Append(r3, "you have prior context from a comment") ELSE r3
        r5 == r4 \o ScopeReasons(item)
    IN  IF r5 = << >>
        THEN <<"good fit based on difficulty tier and queue position">>
        ELSE r5

build_explanation(item, github_username) ==
    "Recommended because: " \o Join(Reasons(item), "; ") \o "."

\* one insertion of a stable ascending sort: x goes before the first
\* element whose key is greater than its own
RECURSIVE InsertByKey(_, _)
InsertByKey(s, x) ==
    IF s = << >> THEN <<x>>
    ELSE IF FloatLess(x.key, Head(s).key) THEN <<x>> \o s
    ELSE <<Head(s)>> \o InsertByKey(Tail(s), x)

RECURSIVE StableSortAscending(_)
StableSortAscending(s) ==
    IF s = << >> THEN << >>
    ELSE InsertByKey(StableSortAscending(SubSeq(s, 1, Len(s) - 1)), s[Len(s)])

\* (variant: an ascending sort)
SortedAscending(s) == StableSortAscending(s)

\* (variant: a descending sort that reverses the order of equal keys)
SortedThenReversed(s) == Reversed(StableSortAscending(s))

\* sorted(s, key = ..., reverse = True) on a list of [key, ref]: CPython
\* reverses the list, sorts it stably in ascending order and reverses it
\* again, so that equal keys keep their order
SortedReverse(s) == Reversed(StableSortAscending(Reversed(s)))

\* the effect of sort_queue_math_test on the heap h and the list items:
\* the caller's list afterwards, and the list returned
sort_queue_math_test(h, items, github_username) ==
    LET keyed == [i \in 1..Len(items) |->
                    [key |-> confidence_score(h[items[i]], github_username),
                     ref |-> items[i]]]
        out   == SortedReverse(keyed)
    IN  [items |-> items, ret |-> [i \in 1..Len(out) |-> out[i].ref]]

\* (variant: enriched = item, the same object)
AliasDict(h, ref) == [heap |-> h, ref |-> ref]

\* dict(item): a new object holding the fields of the object at ref
CopyDict(h, ref) == [heap |-> Append(h, h[ref]), ref |-> Len(h) + 1]

\* (variant: no slice)
TopAll(s) == s

\* (variant: sorted_items[:2])
TopTwo(s) == SubSeq(s, 1, IF Len(s) < 2 THEN Len(s) ELSE 2)

\* sorted_items[:3]
Top(s) == SubSeq(s, 1, IF Len(s) < 3 THEN Len(s) ELSE 3)

\* the for loop of recommend_top_three from the i-th element of top on
RECURSIVE RecommendLoop(_, _, _, _, _)
RecommendLoop(h, top, i, result, github_username) ==
    IF i > Len(top) THEN [heap |-> h, ret |-> result]
    ELSE LET item     == h[top[i]]
             enriched == CopyDict(h, top[i])
             score    == RoundScore(confidence_score(item, github_username))
             expl     == build_explanation(item, github_username)
             h1       == [enriched.heap EXCEPT ![enriched.ref] =
                             DictSet(DictSet(@, "score", score),
                                     "explanation", expl)]
         IN  RecommendLoop(h1, top, i + 1,
                           Append(result, enriched.ref), github_username)

\* (variant: the first three of the list as given)
recommend_first_three(h, items, github_username) ==
    LET loop == RecommendLoop(h, Top(items), 1, << >>, github_username)
    IN  [heap |-> loop.heap, items |-> items, ret |-> loop.ret]

recommend_top_three(h, items, github_username) ==
    LET sorted == sort_queue_math_test(h, items, github_username)
        loop   == RecommendLoop(h, Top(sorted.ret), 1, << >>, github_username)
    IN  [heap |-> loop.heap, items |-> sorted.items, ret |-> loop.ret]

(***************************************************************************)
(* The inputs: the queue items a caller may pass.                          *)
(***************************************************************************)
NegSP == 2
MaxSP == 14
MaxQueue == 4

\* the authenticated user's name, which the caller passes and the scorer
\* never reads
Username == "alice"

normal == <<"n", "o", "r", "m", "a", "l">>

StoryPointValues ==
    {None} \cup {Some(n) : n \in (0 - NegSP)..MaxSP} \cup {Some(21), Some(100)}

PriorityValues ==
    {None, Some(<< >>), Some(normal), Some(<<"l", "o", "w">>),
     Some(critical), Some(<<"C", "r", "i", "t", "i", "c", "a", "l">>),
     Some(<<"C", "R", "I", "T", "I", "C", "A", "L">>),
     Some(blocker), Some(high), Some(<<"H", "I", "G", "H">>)}

\* the dicts with key k absent or bound to one of values
Field(k, values) == {<< >>} \cup {k :> v : v \in values}

\* every record of the five fields the scorer reads, each present or not
AllItems ==
    {a @@ b @@ c @@ d @@ e :
        a \in Field("story_points", StoryPointValues),
        b \in Field("priority", PriorityValues),
        c \in Field("is_assigned_to_user", BOOLEAN),
        d \in Field("user_commented", BOOLEAN),
        e \in Field("awaiting_review_from_user", BOOLEAN)}

\* _make_item of tests/test_scoring.py
MakeItem(sp, priority, is_assigned, user_commented, awaiting_review) ==
    [story_points |-> sp, priority |-> Some(priority),
     is_assigned_to_user |-> is_assigned, user_commented |-> user_commented,
     awaiting_review_from_user |-> awaiting_review]

\* the kinds of item of the longer queues: scores 3.0, 1.0 twice (a tie of
\* unlike items), 0.39 and 0.39000000000000007 (equal as reals, unequal as
\* floats)
QueueKinds ==
    << MakeItem(Some(1), critical, FALSE, TRUE, FALSE),
       MakeItem(Some(1), normal, FALSE, FALSE, FALSE),
       MakeItem(None, critical, FALSE, TRUE, FALSE),
       MakeItem(Some(13), high, TRUE, FALSE, FALSE),
       MakeItem(Some(13), normal, FALSE, TRUE, TRUE) >>

\* _make_queue of tests/test_scoring.py: the items carry their number
Queues ==
    UNION {{[i \in 1..n |-> DictSet(QueueKinds[q[i]], "number", i)] :
               q \in [1..n -> 1..Len(QueueKinds)]} : n \in 0..MaxQueue}

\* a list of one item, of any kind
Singles == {<<it>> : it \in AllItems}

(***************************************************************************)
(* The state: the heap of dicts, the caller's list of references to its    *)
(* items, and the last call with what it returned.  Objects a call         *)
(* returned are dropped when the next call is made.                        *)
(***************************************************************************)
VARIABLES heap, items, call

\* The state of the rest of the backend, which the scorer and the coaching
\* policy never touch: the callers in flight, the chat rate limiter's dict,
\* the monotonic clock, the log of chat requests and their outcomes (kept
\* for the properties only) and the database.
VARIABLES tasks, rate_limit, clock, chat_log, db

services == <<tasks, rate_limit, clock, chat_log, db>>

vars == <<fpu, heap, items, call, tasks, rate_limit, clock, chat_log, db>>

\* the database after the migrations: every table empty
NoRows ==
    [users |-> << >>, day_sessions |-> << >>, work_blocks |-> << >>,
     coaching_profiles |-> << >>, puzzle_attempts |-> {},
     badges |-> << >>]

\* nothing in flight, _rate_limit = {}, the clock at its origin
ServicesAtRest ==
    /\ tasks = << >>
    /\ rate_limit = << >>
    /\ clock = 0
    /\ chat_log = << >>
    /\ db = NoRows

Init ==
    /\ fpu = FloatUnit
    /\ heap \in Singles \/ heap \in Queues
    /\ items = [i \in 1..Len(heap) |-> i]
    /\ call = [fn |-> "none"]
    /\ ServicesAtRest

\* the objects of the caller's list: what is left of the heap once the
\* last call's result is dropped
InputObjects == SubSeq(heap, 1, Len(items))

\* (a value an action uses more than once is bound by \E over a singleton,
\* which evaluates it once)
CallStoryPointsToTier(i) ==
    \E sp \in {Get(heap[items[i]], "story_points", None)} :
        /\ call' = [fn |-> "story_points_to_tier", sp |-> sp,
                    ret |-> story_points_to_tier(sp)]
        /\ heap' = InputObjects
        /\ UNCHANGED <<fpu, items>>
        /\ UNCHANGED services

\* (variant: a score kept from the last confidence_score call is returned)
CallConfidenceScoreCached(i, u) ==
    /\ call' = [fn |-> "confidence_score", item |-> items[i], user |-> u,
                ret |-> IF call.fn = "confidence_score" THEN call.ret
                        ELSE confidence_score(heap[items[i]], u)]
    /\ heap' = InputObjects
    /\ UNCHANGED <<fpu, items>>
    /\ UNCHANGED services

CallConfidenceScore(i, u) ==
    /\ call' = [fn |-> "confidence_score", item |-> items[i], user |-> u,
                ret |-> confidence_score(heap[items[i]], u)]
    /\ heap' = InputObjects
    /\ UNCHANGED <<fpu, items>>
    /\ UNCHANGED services

CallSortQueue(u) ==
    \E r \in {sort_queue_math_test(InputObjects, items, u)} :
        /\ call' = [fn |-> "sort_queue_math_test", user |-> u, ret |-> r.ret]
        /\ heap' = InputObjects
        /\ items' = r.items
        /\ UNCHANGED fpu
        /\ UNCHANGED services

CallRecommend(u) ==
    \E r \in {recommend_top_three(InputObjects, items, u)} :
        /\ call' = [fn |-> "recommend_top_three", user |-> u, ret |-> r.ret]
        /\ heap' = r.heap
        /\ items' = r.items
        /\ UNCHANGED fpu
        /\ UNCHANGED services

Next ==
    \/ \E i \in 1..Len(items) : CallStoryPointsToTier(i)
    \/ \E i \in 1..Len(items) : CallConfidenceScore(i, Username)
    \/ CallSortQueue(Username)
    \/ CallRecommend(Username)

Spec == Init /\ [][Next]_vars

(***************************************************************************)
(* coaching_service.py                                                     *)
(***************************************************************************)
PETER_PRs_MERGED_PER_WEEK == 3
PETER_PRs_REVIEWED_PER_WEEK == 5

\* float(activity.get("annotation_rate") or 0.0)
AnnotationRateOf(activity) ==
    LET r == Get(activity, "annotation_rate", None)
    IN  IF r = None \/ TheValue(r) = FloatZero THEN FloatZero ELSE TheValue(r)

\* (variant: more than three merged PRs asked for)
detect_more_than_merged(activity) ==
    LET prs_merged      == Get(activity, "prs_merged_7d", 0)
        prs_reviewed    == Get(activity, "prs_reviewed_7d", 0)
        annotation_rate == AnnotationRateOf(activity)
    IN  IF /\ prs_merged > PETER_PRs_MERGED_PER_WEEK
           /\ prs_reviewed >= PETER_PRs_REVIEWED_PER_WEEK
           /\ FloatAtLeast(annotation_rate, fpu.peter_rate)
        THEN "peter"
        ELSE "ransom"

detect_coaching_level(activity) ==
    LET prs_merged      == Get(activity, "prs_merged_7d", 0)
        prs_reviewed    == Get(activity, "prs_reviewed_7d", 0)
        annotation_rate == AnnotationRateOf(activity)
    IN  IF /\ prs_merged >= PETER_PRs_MERGED_PER_WEEK
           /\ prs_reviewed >= PETER_PRs_REVIEWED_PER_WEEK
           /\ FloatAtLeast(annotation_rate, fpu.peter_rate)
        THEN "peter"
        ELSE "ransom"

\* (variant: peter prompted from 15 minutes on)
should_prompt_from_15(level, last_activity_minutes, phase) ==
    IF level = "peter"
    THEN phase \in {"coding", "debugging", "review"}
         /\ last_activity_minutes >= 15
    ELSE IF last_activity_minutes = 0 THEN TRUE
    ELSE last_activity_minutes > 0 /\ last_activity_minutes % 25 = 0

\* (variant: ransom not prompted at a phase transition while idle)
should_prompt_by_phase(level, last_activity_minutes, phase) ==
    IF level = "peter"
    THEN phase \in {"coding", "debugging", "review"}
         /\ last_activity_minutes > 15
    ELSE IF last_activity_minutes = 0 THEN phase # "idle"
    ELSE last_activity_minutes > 0 /\ last_activity_minutes % 25 = 0

\* last_activity_minutes % 25 of Python: the remainder has the sign of 25
should_prompt(level, last_activity_minutes, phase) ==
    IF level = "peter"
    THEN phase \in {"coding", "debugging", "review"}
         /\ last_activity_minutes > 15
    ELSE IF last_activity_minutes = 0 THEN TRUE
    ELSE last_activity_minutes > 0 /\ last_activity_minutes % 25 = 0

(***************************************************************************)
(* The inputs of the coaching policy.                                      *)
(***************************************************************************)
MaxPRs == 6
MaxIdle == 51
NegIdle == 1

\* the values annotation_rate may have: null, 0.0 or one of the rates
RateValues ==
    {None, Some(FloatZero)} \cup {Some(FloatUnit.rate[r]) : r \in DOMAIN RateTable}

\* the activity records: each metric present or not
Activities ==
    {a @@ b @@ c :
        a \in Field("prs_merged_7d", 0..MaxPRs),
        b \in Field("prs_reviewed_7d", 0..MaxPRs),
        c \in Field("annotation_rate", RateValues)}

Levels == {"peter", "ransom"}

Phases == {"coding", "debugging", "review", "planning", "idle", "lunch"}

IdleValues == (0 - NegIdle)..MaxIdle

(***************************************************************************)
(* The coaching policy's calls.  They leave the queue alone and record     *)
(* themselves as the last call.  CoachSpec starts from an empty queue.     *)
(***************************************************************************)
CallDetectCoachingLevel(activity) ==
    /\ call' = [fn |-> "detect_coaching_level", activity |-> activity,
                ret |-> detect_coaching_level(activity)]
    /\ heap' = InputObjects
    /\ UNCHANGED <<fpu, items>>
    /\ UNCHANGED services

CallShouldPrompt(level, last_activity_minutes, phase) ==
    /\ call' = [fn |-> "should_prompt", level |-> level,
                minutes |-> last_activity_minutes, phase |-> phase,
                ret |-> should_prompt(level, last_activity_minutes, phase)]
    /\ heap' = InputObjects
    /\ UNCHANGED <<fpu, items>>
    /\ UNCHANGED services

CoachInit ==
    /\ fpu = FloatUnit
    /\ heap = << >>
    /\ items = << >>
    /\ call = [fn |-> "none"]
    /\ ServicesAtRest

CoachNext ==
    \/ \E activity \in Activities : CallDetectCoachingLevel(activity)
    \/ \E level \in Levels, m \in IdleValues, phase \in Phases :
           CallShouldPrompt(level, m, phase)

CoachSpec == CoachInit /\ [][CoachNext]_vars

(***************************************************************************)
(* Scorer and coaching policy together: calls of both, in any order, on    *)
(* the queues of up to two items.                                          *)
(***************************************************************************)
MixedQueues == {q \in Queues : Len(q) <= 2}

MixedActivities ==
    {<< >>,
     [prs_merged_7d |-> 3, prs_reviewed_7d |-> 5,
      annotation_rate |-> Some(fpu.rate.four_fifths)],
     [prs_merged_7d |-> 3, prs_reviewed_7d |-> 5,
      annotation_rate |-> Some(fpu.rate.below)]}

MixedInit ==
    /\ fpu = FloatUnit
    /\ heap \in MixedQueues
    /\ items = [i \in 1..Len(heap) |-> i]
    /\ call = [fn |-> "none"]
    /\ ServicesAtRest

MixedNext ==
    \/ Next
    \/ \E activity \in MixedActivities : CallDetectCoachingLevel(activity)
    \/ \E level \in Levels, m \in {0, 16, 25}, phase \in {"coding", "idle"} :
           CallShouldPrompt(level, m, phase)

MixedSpec == MixedInit /\ [][MixedNext]_vars

(***************************************************************************)
(* Concurrent callers.  Each caller runs one call of the scorer or of the  *)
(* coaching policy on the shared list, one step at a time: the interpreter *)
(* may switch callers between any two steps.  sorted() copies the list,    *)
(* calls the key function on each element in turn, then sorts the copy;    *)
(* the loop of recommend_top_three copies an item, scores it and explains  *)
(* it in three steps.                                                      *)
(***************************************************************************)
Callers == 2

CallerIds == 1..Callers

Idle == [pc |-> "idle"]

\* the activity records and the should_prompt arguments of the concurrent
\* callers
ConcActivities ==
    {[prs_merged_7d |-> 3, prs_reviewed_7d |-> 5,
      annotation_rate |-> Some(fpu.rate.four_fifths)],
     [prs_merged_7d |-> 3, prs_reviewed_7d |-> 5,
      annotation_rate |-> Some(fpu.rate.below)]}

ConcPrompts ==
    {[level |-> level, minutes |-> 16, phase |-> "coding"] : level \in Levels}

\* the queues the callers share: those of up to one item, and one of four
\* items in ascending order of score
ConcQueues ==
    {q \in Queues : Len(q) <= 1}
    \cup {[i \in 1..4 |-> DictSet(QueueKinds[Len(QueueKinds) + 1 - i],
                                  "number", i)]}

EnterScorer(t, fn) ==
    /\ tasks[t].pc = "idle"
    /\ tasks' = [tasks EXCEPT ![t] =
                    [pc |-> "sorted", fn |-> fn, user |-> Username,
                     copy |-> << >>, keyed |-> << >>, top |-> << >>,
                     i |-> 1, enriched |-> 0, result |-> << >>]]
    /\ UNCHANGED <<fpu, heap, items, call, rate_limit, clock, chat_log, db>>

EnterCoach(t, fn, args) ==
    /\ tasks[t].pc = "idle"
    /\ tasks' = [tasks EXCEPT ![t] = [pc |-> "coach", fn |-> fn, args |-> args]]
    /\ UNCHANGED <<fpu, heap, items, call, rate_limit, clock, chat_log, db>>

\* sorted(items, ...): the new list holds the elements of items
SortedCopy(t) ==
    /\ tasks[t].pc = "sorted"
    /\ tasks' = [tasks EXCEPT ![t].copy = items, ![t].pc = "key"]
    /\ UNCHANGED <<fpu, heap, items, call, rate_limit, clock, chat_log, db>>

\* the key function on the next element of the copy
SortedKey(t) ==
    /\ tasks[t].pc = "key"
    /\ Len(tasks[t].keyed) < Len(tasks[t].copy)
    /\ \E ref \in {tasks[t].copy[Len(tasks[t].keyed) + 1]} :
           tasks' = [tasks EXCEPT ![t].keyed =
                        Append(@, [key |-> confidence_score(heap[ref],
                                                            tasks[t].user),
                                   ref |-> ref])]
    /\ UNCHANGED <<fpu, heap, items, call, rate_limit, clock, chat_log, db>>

\* (variant: items.sort(...), which orders the caller's list itself)
SortedSortInPlace(t) ==
    /\ tasks[t].pc = "key"
    /\ Len(tasks[t].keyed) = Len(tasks[t].copy)
    /\ \E out \in {SortedReverse(tasks[t].keyed)} :
           /\ items' = [i \in 1..Len(out) |-> out[i].ref]
           /\ tasks' = [tasks EXCEPT
                           ![t].pc = IF tasks[t].fn = "sort_queue_math_test"
                                     THEN "done" ELSE "loop",
                           ![t].top = Top(items'),
                           ![t].result = IF tasks[t].fn = "sort_queue_math_test"
                                         THEN items' ELSE << >>]
    /\ UNCHANGED <<fpu, heap, call, rate_limit, clock, chat_log, db>>

\* the copy is sorted; sort_queue_math_test returns it, recommend_top_three
\* takes sorted_items[:3]
SortedSort(t) ==
    /\ tasks[t].pc = "key"
    /\ Len(tasks[t].keyed) = Len(tasks[t].copy)
    /\ \E out \in {SortedReverse(tasks[t].keyed)} :
         \E refs \in {[i \in 1..Len(out) |-> out[i].ref]} :
           tasks' = [tasks EXCEPT
                        ![t].pc = IF tasks[t].fn = "sort_queue_math_test"
                                  THEN "done" ELSE "loop",
                        ![t].top = Top(refs),
                        ![t].result = IF tasks[t].fn = "sort_queue_math_test"
                                      THEN refs ELSE << >>]
    /\ UNCHANGED <<fpu, heap, items, call, rate_limit, clock, chat_log, db>>

\* enriched = dict(item)
LoopCopy(t) ==
    /\ tasks[t].pc = "loop"
    /\ tasks[t].i <= Len(tasks[t].top)
    /\ \E enriched \in {CopyDict(heap, tasks[t].top[tasks[t].i])} :
           /\ heap' = enriched.heap
           /\ tasks' = [tasks EXCEPT ![t].enriched = enriched.ref,
                                     ![t].pc = "score"]
    /\ UNCHANGED <<fpu, items, call, rate_limit, clock, chat_log, db>>

\* enriched["score"] = round(confidence_score(item, github_username), 4)
LoopScore(t) ==
    /\ tasks[t].pc = "score"
    /\ heap' = [heap EXCEPT ![tasks[t].enriched] =
                   DictSet(@, "score",
                           RoundScore(confidence_score(
                               heap[tasks[t].top[tasks[t].i]], tasks[t].user)))]
    /\ tasks' = [tasks EXCEPT ![t].pc = "explain"]
    /\ UNCHANGED <<fpu, items, call, rate_limit, clock, chat_log, db>>

\* enriched["explanation"] = ...; result.append(enriched)
LoopExplain(t) ==
    /\ tasks[t].pc = "explain"
    /\ heap' = [heap EXCEPT ![tasks[t].enriched] =
                   DictSet(@, "explanation",
                           build_explanation(heap[tasks[t].top[tasks[t].i]],
                                             tasks[t].user))]
    /\ tasks' = [tasks EXCEPT ![t].result = Append(@, tasks[t].enriched),
                              ![t].i = @ + 1,
                              ![t].pc = "loop"]
    /\ UNCHANGED <<fpu, items, call, rate_limit, clock, chat_log, db>>

\* return result
LoopReturn(t) ==
    /\ tasks[t].pc = "loop"
    /\ tasks[t].i > Len(tasks[t].top)
    /\ tasks' = [tasks EXCEPT ![t].pc = "done"]
    /\ UNCHANGED <<fpu, heap, items, call, rate_limit, clock, chat_log, db>>

\* detect_coaching_level and should_prompt read their arguments only
CoachReturn(t) ==
    /\ tasks[t].pc = "coach"
    /\ tasks' = [tasks EXCEPT
                    ![t] = [pc |-> "done", fn |-> tasks[t].fn,
                            args |-> tasks[t].args,
                            result |->
                                IF tasks[t].fn = "detect_coaching_level"
                                THEN detect_coaching_level(tasks[t].args)
                                ELSE should_prompt(tasks[t].args.level,
                                                   tasks[t].args.minutes,
                                                   tasks[t].args.phase)]]
    /\ UNCHANGED <<fpu, heap, items, call, rate_limit, clock, chat_log, db>>

ConcInit ==
    /\ fpu = FloatUnit
    /\ heap \in ConcQueues
    /\ items = [i \in 1..Len(heap) |-> i]
    /\ call = [fn |-> "none"]
    /\ tasks = [t \in CallerIds |-> Idle]
    /\ rate_limit = << >>
    /\ clock = 0
    /\ chat_log = << >>
    /\ db = NoRows

ConcNext ==
    \E t \in CallerIds :
        \/ \E fn \in {"sort_queue_math_test", "recommend_top_three"} :
               EnterScorer(t, fn)
        \/ \E activity \in ConcActivities :
               EnterCoach(t, "detect_coaching_level", activity)
        \/ \E args \in ConcPrompts : EnterCoach(t, "should_prompt", args)
        \/ SortedCopy(t)
        \/ SortedKey(t)
        \/ SortedSort(t)
        \/ LoopCopy(t)
        \/ LoopScore(t)
        \/ LoopExplain(t)
        \/ LoopReturn(t)
        \/ CoachReturn(t)

ConcSpec == ConcInit /\ [][ConcNext]_vars

(***************************************************************************)
(* The chat rate limiter of routers/conversation.py.  _check_rate_limit    *)
(* has no await, so the event loop runs each call to its end.  The clock   *)
(* is time.monotonic() in whole seconds; subtracting 60.0 from such a      *)
(* float is exact.                                                         *)
(***************************************************************************)
CHAT_RATE_LIMIT == 20

WINDOW_SECONDS == 60

\* [t for t in timestamps if t > window_start]
Pruned(timestamps, window_start) ==
    SelectSeq(timestamps, LAMBDA t : t > window_start)

\* (variant: len(timestamps) > CHAT_RATE_LIMIT)
check_rate_limit_above(d, user_id, now) ==
    LET timestamps == Pruned(Get(d, user_id, << >>), now - WINDOW_SECONDS)
    IN  IF Len(timestamps) > CHAT_RATE_LIMIT
        THEN [rate_limit |-> DictSet(d, user_id, timestamps),
              raised |-> Some(429)]
        ELSE [rate_limit |-> DictSet(d, user_id, Append(timestamps, now)),
              raised |-> None]

\* (variant: the timestamp is appended before the limit is checked)
check_rate_limit_recording(d, user_id, now) ==
    LET timestamps == Append(Pruned(Get(d, user_id, << >>),
                                    now - WINDOW_SECONDS), now)
    IN  IF Len(timestamps) > CHAT_RATE_LIMIT
        THEN [rate_limit |-> DictSet(d, user_id, timestamps),
              raised |-> Some(429)]
        ELSE [rate_limit |-> DictSet(d, user_id, timestamps),
              raised |-> None]

\* _check_rate_limit with _rate_limit = d and time.monotonic() = now: the
\* dict afterwards, and the status of the HTTPException raised, if any
check_rate_limit(d, user_id, now) ==
    LET window_start == now - WINDOW_SECONDS
        timestamps   == Pruned(Get(d, user_id, << >>), window_start)
    IN  IF Len(timestamps) >= CHAT_RATE_LIMIT
        THEN [rate_limit |-> DictSet(d, user_id, timestamps),
              raised |-> Some(429)]
        ELSE [rate_limit |-> DictSet(d, user_id, Append(timestamps, now)),
              raised |-> None]

\* the clock runs to MaxTicks half windows; the second user sends up to
\* MaxOthers requests in a window; a user gives up for the moment after
\* MaxRetries rejections in a row.  The log holds the requests of the last
\* 60 seconds: an older request shares no interval of 60 seconds with a
\* request still to come.
MaxTicks == 3
MaxOthers == 2
MaxRetries == 2

ChatUsers == {"ann", "bob"}

RequestsOf(user_id) == Get(chat_log, user_id, << >>)

\* the rejections at the end of a user's log that happened at the time now
RECURSIVE Retries(_, _)
Retries(log, now) ==
    IF log = << >> THEN 0
    ELSE IF log[Len(log)].at = now /\ log[Len(log)].raised # None
    THEN 1 + Retries(SubSeq(log, 1, Len(log) - 1), now)
    ELSE 0

\* POST /chat by user_id: chat_endpoint calls _check_rate_limit first
ChatRequest(user_id) ==
    /\ user_id # "ann" => Len(RequestsOf(user_id)) < MaxOthers
    /\ Retries(RequestsOf(user_id), clock) < MaxRetries
    /\ \E r \in {check_rate_limit(rate_limit, user_id, clock)} :
           /\ rate_limit' = r.rate_limit
           /\ call' = [fn |-> "_check_rate_limit", user_id |-> user_id,
                       now |-> clock, raised |-> r.raised]
           /\ chat_log' = DictSet(chat_log, user_id,
                                  Append(RequestsOf(user_id),
                                         [at |-> clock, raised |-> r.raised]))
    /\ UNCHANGED <<fpu, heap, items, tasks, clock, db>>

\* half a window passes
Tick ==
    /\ clock < MaxTicks * (WINDOW_SECONDS \div 2)
    /\ clock' = clock + (WINDOW_SECONDS \div 2)
    /\ chat_log' = [user_id \in DOMAIN chat_log |->
                       SelectSeq(chat_log[user_id],
                                 LAMBDA q : q.at > clock' - WINDOW_SECONDS)]
    /\ UNCHANGED <<fpu, heap, items, call, tasks, rate_limit, db>>

RateInit ==
    /\ fpu = FloatUnit
    /\ heap = << >>
    /\ items = << >>
    /\ call = [fn |-> "none"]
    /\ ServicesAtRest

RateNext ==
    \/ \E user_id \in ChatUsers : ChatRequest(user_id)
    \/ Tick

RateSpec == RateInit /\ [][RateNext]_vars

(***************************************************************************)
(* The daily puzzle of services/puzzle_service.py.  A date is a day number *)
(* counted from Monday 2026-01-05.  A row of puzzle_attempts keeps the     *)
(* columns that the responses and the badge depend on; the table is a set  *)
(* of rows, which uq_puzzle_attempts_user_date keeps apart.  Two badges    *)
(* can be alike in every column but the id, so badges is a list.           *)
(***************************************************************************)
ALL_TYPES == <<"debug_snippet", "logic_reasoning", "sql_regex", "algorithm_mini">>

\* _WEEKDAY_TYPES, Monday first
WEEKDAY_TYPES ==
    <<"debug_snippet", "logic_reasoning", "sql_regex", "algorithm_mini",
      "debug_snippet", "logic_reasoning", "logic_reasoning">>

\* date.weekday(): Monday is 0
Weekday(puzzle_date) == puzzle_date % 7

Digits == <<"0", "1", "2", "3", "4", "5", "6", "7", "8", "9">>

\* date.isoformat(), for the days of January 2026 from the 5th on
IsoFormat(puzzle_date) ==
    "2026-01-" \o Digits[((puzzle_date + 5) \div 10) + 1]
               \o Digits[((puzzle_date + 5) % 10) + 1]

\* the values _puzzle_type_for_date can return: random.choice on Fridays
puzzle_type_for_date(puzzle_date) ==
    IF Weekday(puzzle_date) = 4 THEN {ALL_TYPES[i] : i \in 1..Len(ALL_TYPES)}
    ELSE {WEEKDAY_TYPES[Weekday(puzzle_date) + 1]}

\* d.pop(k, None) on a dict
DictPop(d, k) == [j \in DOMAIN d \ {k} |-> d[j]]

\* (variant: {**content, ...}, the stored content without its answer)
safe_puzzle_content_merged(attempt) ==
    LET content == DictPop(attempt.puzzle_content, "answer")
    IN  DictSet(DictSet(DictSet(content,
            "puzzle_date", IsoFormat(attempt.puzzle_date)),
            "puzzle_type", attempt.puzzle_type),
            "completed", attempt.completed)

\* _safe_puzzle_content
safe_puzzle_content(attempt) ==
    LET content == DictPop(attempt.puzzle_content, "answer")
    IN  [puzzle_date |-> IsoFormat(attempt.puzzle_date),
         puzzle_type |-> attempt.puzzle_type,
         completed |-> attempt.completed,
         question |-> Get(content, "question", ""),
         hint |-> Get(content, "hint", ""),
         type |-> Get(content, "type", attempt.puzzle_type)]

\* the rows select(PuzzleAttempt).where(user_id, puzzle_date) finds
AttemptsOf(d, user_id, puzzle_date) ==
    {a \in d.puzzle_attempts :
        a.user_id = user_id /\ a.puzzle_date = puzzle_date}

\* the Monday of the week of puzzle_date
week_start(puzzle_date) == puzzle_date - Weekday(puzzle_date)

BadgeType(puzzle_date) ==
    "weekly_puzzle_" \o IsoFormat(week_start(puzzle_date))

\* the first select of _check_and_award_weekly_badge
completed_this_week(d, user_id, puzzle_date) ==
    {a \in d.puzzle_attempts :
        /\ a.user_id = user_id
        /\ a.puzzle_date >= week_start(puzzle_date)
        /\ a.puzzle_date <= week_start(puzzle_date) + 6
        /\ a.completed}

\* its second select
existing_badge(d, user_id, puzzle_date) ==
    SelectSeq(d.badges,
              LAMBDA b : /\ b.user_id = user_id
                         /\ b.badge_type = BadgeType(puzzle_date))

NewBadge(user_id, puzzle_date) ==
    [user_id |-> user_id, badge_type |-> BadgeType(puzzle_date),
     github_noted |-> FALSE]

BadgeResponse(badge) ==
    [badge_type |-> badge.badge_type,
     message |-> "Weekly puzzle streak complete! Badge earned."]

\* _check_and_award_weekly_badge run without interruption on the database
\* d: the database afterwards and what is returned or raised
\* (scalar_one_or_none raises when it finds two rows)
check_and_award_weekly_badge(d, user_id, puzzle_date) ==
    IF Cardinality(completed_this_week(d, user_id, puzzle_date)) < 5
    THEN [db |-> d, ret |-> None, raised |-> None]
    ELSE IF Len(existing_badge(d, user_id, puzzle_date)) > 1
    THEN [db |-> d, ret |-> None, raised |-> Some("MultipleResultsFound")]
    ELSE IF Len(existing_badge(d, user_id, puzzle_date)) = 1
    THEN [db |-> d, ret |-> None, raised |-> None]
    ELSE [db |-> [d EXCEPT !.badges =
                     Append(@, NewBadge(user_id, puzzle_date))],
          ret |-> Some(BadgeResponse(NewBadge(user_id, puzzle_date))),
          raised |-> None]

\* attempt.completed = evaluation["correct"]; await db.commit()
RecordAttempt(d, attempt, correct) ==
    [d EXCEPT !.puzzle_attempts =
        (@ \ {attempt}) \cup {[attempt EXCEPT !.completed = correct]}]

SubmitResponse(attempt, correct, badge_earned) ==
    [correct |-> correct,
     explanation |-> Get(attempt.puzzle_content, "explanation", ""),
     badge_earned |-> badge_earned]

\* submit_puzzle_answer run without interruption, the evaluation of the
\* answer being correct or not
submit_puzzle_answer(d, user_id, puzzle_date, correct) ==
    IF AttemptsOf(d, user_id, puzzle_date) = {}
    THEN [db |-> d, ret |-> None, raised |-> Some("ValueError")]
    ELSE LET attempt ==
                 CHOOSE a \in AttemptsOf(d, user_id, puzzle_date) : TRUE
             b == check_and_award_weekly_badge(
                      RecordAttempt(d, attempt, correct), user_id, puzzle_date)
         IN  [db |-> b.db,
              ret |-> IF b.raised = None
                      THEN Some(SubmitResponse(attempt, correct, b.ret))
                      ELSE None,
              raised |-> b.raised]

\* what generate_puzzle may return: the object the model answered with,
\* its type overwritten
Generated(puzzle_type) ==
    {DictSet(parsed, "type", puzzle_type) :
        parsed \in {[question |-> "q", hint |-> "h", answer |-> "a1",
                     explanation |-> "e1"],
                    [question |-> "q", hint |-> "h", answer |-> "a2",
                     explanation |-> "e2"],
                    [question |-> "q", answer |-> "a1", type |-> "a1"],
                    [answer |-> "a1"]}}

\* the one puzzle of the specifications that follow whole weeks
PlainPuzzle(puzzle_type) ==
    {[question |-> "q", hint |-> "h", answer |-> "a1", explanation |-> "e1",
      type |-> puzzle_type]}

PuzzleUser == "ann"

\* GET /puzzle/today on the day puzzle_date, run without interruption
GetDailyPuzzle(user_id, puzzle_date, puzzle_type, puzzle_data) ==
    /\ \E existing \in {AttemptsOf(db, user_id, puzzle_date)} :
         IF existing # {} /\ \A a \in existing : a.puzzle_content # << >>
         THEN /\ call' = [fn |-> "get_daily_puzzle", puzzle_date |-> puzzle_date,
                          stored |-> TRUE, raised |-> None,
                          ret |-> Some(safe_puzzle_content(
                                     CHOOSE a \in existing : TRUE))]
              /\ db' = db
         ELSE IF existing # {}
         THEN \* uq_puzzle_attempts_user_date rejects the second row
              /\ call' = [fn |-> "get_daily_puzzle", puzzle_date |-> puzzle_date,
                          stored |-> TRUE, raised |-> Some("IntegrityError"),
                          ret |-> None]
              /\ db' = db
         ELSE \E attempt \in {[user_id |-> user_id, puzzle_date |-> puzzle_date,
                               puzzle_type |-> puzzle_type,
                               puzzle_content |-> puzzle_data,
                               completed |-> FALSE]} :
              /\ call' = [fn |-> "get_daily_puzzle", puzzle_date |-> puzzle_date,
                          stored |-> FALSE, raised |-> None,
                          ret |-> Some(safe_puzzle_content(attempt))]
              /\ db' = [db EXCEPT !.puzzle_attempts = @ \cup {attempt}]
    /\ UNCHANGED <<fpu, heap, items, tasks, rate_limit, clock, chat_log>>

\* POST /puzzle/submit, run without interruption
SubmitPuzzleAnswer(user_id, puzzle_date, correct) ==
    /\ \E r \in {submit_puzzle_answer(db, user_id, puzzle_date, correct)} :
           /\ db' = r.db
           /\ call' = [fn |-> "submit_puzzle_answer",
                       puzzle_date |-> puzzle_date, stored |-> TRUE,
                       raised |-> r.raised, ret |-> r.ret]
    /\ UNCHANGED <<fpu, heap, items, tasks, rate_limit, clock, chat_log>>

\* the days on which PuzzleSpec asks for puzzles: a Thursday and a Friday
PuzzleDays == {3, 4}

PuzzleInit ==
    /\ fpu = FloatUnit
    /\ heap = << >>
    /\ items = << >>
    /\ call = [fn |-> "none"]
    /\ ServicesAtRest

PuzzleNext ==
    \E puzzle_date \in PuzzleDays :
        \/ \E puzzle_type \in puzzle_type_for_date(puzzle_date) :
             \E puzzle_data \in Generated(puzzle_type) :
               GetDailyPuzzle(PuzzleUser, puzzle_date, puzzle_type, puzzle_data)
        \/ \E correct \in BOOLEAN :
               SubmitPuzzleAnswer(PuzzleUser, puzzle_date, correct)

PuzzleSpec == PuzzleInit /\ [][PuzzleNext]_vars

(***************************************************************************)
(* A week of puzzles: Monday to the day MaxDay, one user, one puzzle text. *)
(***************************************************************************)
MaxDay == 6

WeekDays == 0..MaxDay

WeekNext ==
    \E puzzle_date \in WeekDays :
        \/ \E puzzle_type \in puzzle_type_for_date(puzzle_date) :
             \E puzzle_data \in PlainPuzzle(puzzle_type) :
               GetDailyPuzzle(PuzzleUser, puzzle_date, puzzle_type, puzzle_data)
        \/ \E correct \in BOOLEAN :
               SubmitPuzzleAnswer(PuzzleUser, puzzle_date, correct)

WeekSpec == PuzzleInit /\ [][WeekNext]_vars

(***************************************************************************)
(* Concurrent submissions.  Every await of submit_puzzle_answer and of     *)
(* _check_and_award_weekly_badge that reaches the database is a step of    *)
(* its own: the event loop may run another request between two of them.    *)
(* Each request has its own session; a statement sees what was committed   *)
(* before it (READ COMMITTED), and a commit writes the columns that were   *)
(* assigned a value other than the one loaded.                             *)
(***************************************************************************)
\* the week so far: the puzzles of Monday to Friday fetched, those of
\* Monday to Thursday completed
FridayMorning ==
    {[user_id |-> PuzzleUser, puzzle_date |-> day,
      puzzle_type |-> WEEKDAY_TYPES[day + 1],
      puzzle_content |-> CHOOSE p \in PlainPuzzle(WEEKDAY_TYPES[day + 1]) : TRUE,
      completed |-> day < 4] : day \in 0..4}

SubmitEnter(t, user_id, puzzle_date) ==
    /\ tasks[t].pc = "idle"
    /\ tasks' = [tasks EXCEPT ![t] =
                    [pc |-> "select", fn |-> "submit_puzzle_answer",
                     user_id |-> user_id, puzzle_date |-> puzzle_date,
                     late |-> existing_badge(db, user_id, puzzle_date) # << >>]]
    /\ UNCHANGED <<fpu, heap, items, call, rate_limit, clock, chat_log, db>>

\* the select of the attempt; ValueError if there is none
SubmitSelect(t) ==
    /\ tasks[t].pc = "select"
    /\ \E found \in {AttemptsOf(db, tasks[t].user_id, tasks[t].puzzle_date)} :
         tasks' = [tasks EXCEPT ![t] =
                      IF found = {}
                      THEN [@ EXCEPT !.pc = "done"]
                               @@ [raised |-> Some("ValueError"), ret |-> None]
                      ELSE [@ EXCEPT !.pc = "commit"]
                               @@ [attempt |-> CHOOSE a \in found : TRUE]]
    /\ UNCHANGED <<fpu, heap, items, call, rate_limit, clock, chat_log, db>>

\* the answer is evaluated; attempt.completed = correct; await db.commit()
SubmitCommit(t, correct) ==
    /\ tasks[t].pc = "commit"
    /\ db' = IF correct = tasks[t].attempt.completed THEN db
             ELSE RecordAttempt(db,
                      CHOOSE a \in AttemptsOf(db, tasks[t].user_id,
                                              tasks[t].puzzle_date) : TRUE,
                      correct)
    /\ tasks' = [tasks EXCEPT ![t] =
                    [@ EXCEPT !.pc = "count"] @@ [correct |-> correct]]
    /\ UNCHANGED <<fpu, heap, items, call, rate_limit, clock, chat_log>>

\* the select of the week's completed attempts
BadgeCount(t) ==
    /\ tasks[t].pc = "count"
    /\ tasks' = [tasks EXCEPT ![t] =
                    IF Cardinality(completed_this_week(db, tasks[t].user_id,
                                       tasks[t].puzzle_date)) < 5
                    THEN [@ EXCEPT !.pc = "done"]
                             @@ [raised |-> None,
                                 ret |-> Some(SubmitResponse(tasks[t].attempt,
                                                  tasks[t].correct, None))]
                    ELSE [@ EXCEPT !.pc = "check"]]
    /\ UNCHANGED <<fpu, heap, items, call, rate_limit, clock, chat_log, db>>

\* the select of the week's badge
BadgeCheck(t) ==
    /\ tasks[t].pc = "check"
    /\ \E found \in {existing_badge(db, tasks[t].user_id,
                                    tasks[t].puzzle_date)} :
         tasks' = [tasks EXCEPT ![t] =
                      IF Len(found) > 1
                      THEN [@ EXCEPT !.pc = "done"]
                               @@ [raised |-> Some("MultipleResultsFound"),
                                   ret |-> None]
                      ELSE IF Len(found) = 1
                      THEN [@ EXCEPT !.pc = "done"]
                               @@ [raised |-> None,
                                   ret |-> Some(SubmitResponse(tasks[t].attempt,
                                                    tasks[t].correct, None))]
                      ELSE [@ EXCEPT !.pc = "award"]]
    /\ UNCHANGED <<fpu, heap, items, call, rate_limit, clock, chat_log, db>>

\* db.add(badge); await db.commit()
BadgeAward(t) ==
    /\ tasks[t].pc = "award"
    /\ \E badge \in {NewBadge(tasks[t].user_id, tasks[t].puzzle_date)} :
         /\ db' = [db EXCEPT !.badges = Append(@, badge)]
         /\ tasks' = [tasks EXCEPT ![t] =
                         [@ EXCEPT !.pc = "done"]
                             @@ [raised |-> None,
                                 ret |-> Some(SubmitResponse(tasks[t].attempt,
                                                  tasks[t].correct,
                                                  Some(BadgeResponse(badge))))]]
    /\ UNCHANGED <<fpu, heap, items, call, rate_limit, clock, chat_log>>

\* the response is sent; the caller may submit again
SubmitReturn(t) ==
    /\ tasks[t].pc = "done"
    /\ tasks[t].fn = "submit_puzzle_answer"
    /\ call' = [fn |-> "submit_puzzle_answer",
                puzzle_date |-> tasks[t].puzzle_date, stored |-> TRUE,
                raised |-> tasks[t].raised, ret |-> tasks[t].ret]
    /\ tasks' = [tasks EXCEPT ![t] = Idle]
    /\ UNCHANGED <<fpu, heap, items, rate_limit, clock, chat_log, db>>

RaceInit ==
    /\ fpu = FloatUnit
    /\ heap = << >>
    /\ items = << >>
    /\ call = [fn |-> "none"]
    /\ tasks = [t \in CallerIds |-> Idle]
    /\ rate_limit = << >>
    /\ clock = 0
    /\ chat_log = << >>
    /\ db = [NoRows EXCEPT !.puzzle_attempts = FridayMorning]

RaceNext ==
    \E t \in CallerIds :
        \/ \E puzzle_date \in {4, 5} : SubmitEnter(t, PuzzleUser, puzzle_date)
        \/ SubmitSelect(t)
        \/ \E correct \in BOOLEAN : SubmitCommit(t, correct)
        \/ BadgeCount(t)
        \/ BadgeCheck(t)
        \/ BadgeAward(t)
        \/ SubmitReturn(t)

RaceSpec == RaceInit /\ [][RaceNext]_vars

(***************************************************************************)
(* routers/sessions.py: the day session, its work blocks and the weekly    *)
(* coaching profile.  Each handler runs with its own database session and  *)
(* writes only the attributes it assigns, so a handler is one step.  Rows  *)
(* keep the columns the session's life cycle and the coaching level depend *)
(* on (the profile's issues_annotated counter is not one of them).  The    *)
(* journal written to GitHub, the recommendations and the encouragement    *)
(* text are calls to other services inside try/except and leave the        *)
(* database alone.  uuid4 ids are the row's position in its table.  A      *)
(* user's coaching_level is a column holding either level; the clock       *)
(* counts TicksPerDay ticks a day.                                         *)
(***************************************************************************)
MaxNow == 2

TicksPerDay == 2

MaxBlocks == 2

SessionUsers == {"ann"}

\* date.today()
Today == clock \div TicksPerDay

\* StartSessionRequest and EndSessionRequest
StartBodies == {[owner |-> o, repo |-> "devcoach"] : o \in {"acme", "zeta"}}

EndBodies == {[day_feedback |-> Some("good day")]}

\* (variant: the session starts again when it is reactivated)
StartSessionReopening(user_id, body) ==
    \E found \in {{i \in 1..Len(db.day_sessions) :
                      /\ db.day_sessions[i].user_id = user_id
                      /\ db.day_sessions[i].date = Today}} :
        /\ db' = [db EXCEPT !.day_sessions =
                    IF found = {}
                    THEN Append(@, [id |-> Len(@) + 1, user_id |-> user_id,
                                    date |-> Today, started_at |-> clock,
                                    ended_at |-> None, day_feedback |-> None,
                                    repo_owner |-> body.owner,
                                    repo_name |-> body.repo])
                    ELSE [i \in 1..Len(@) |->
                            IF i \in found
                            THEN [@[i] EXCEPT !.repo_owner = body.owner,
                                              !.repo_name = body.repo,
                                              !.started_at = clock,
                                              !.ended_at = None]
                            ELSE @[i]]]
        /\ call' = [fn |-> "start_session", user_id |-> user_id,
                    body |-> body, created |-> found = {}, raised |-> None]
        /\ UNCHANGED <<fpu, heap, items, tasks, rate_limit, clock, chat_log>>

\* start_session: today's session of the user is created, or, when there
\* is one (uq_day_sessions_user_date allows one), given the request's
\* repository
StartSession(user_id, body) ==
    \E found \in {{i \in 1..Len(db.day_sessions) :
                      /\ db.day_sessions[i].user_id = user_id
                      /\ db.day_sessions[i].date = Today}} :
        /\ db' = [db EXCEPT !.day_sessions =
                    IF found = {}
                    THEN Append(@, [id |-> Len(@) + 1, user_id |-> user_id,
                                    date |-> Today, started_at |-> clock,
                                    ended_at |-> None, day_feedback |-> None,
                                    repo_owner |-> body.owner,
                                    repo_name |-> body.repo])
                    ELSE [i \in 1..Len(@) |->
                            IF i \in found
                            THEN [@[i] EXCEPT !.repo_owner = body.owner,
                                              !.repo_name = body.repo]
                            ELSE @[i]]]
        /\ call' = [fn |-> "start_session", user_id |-> user_id,
                    body |-> body, created |-> found = {}, raised |-> None]
        /\ UNCHANGED <<fpu, heap, items, tasks, rate_limit, clock, chat_log>>

\* annotated_blocks / total_blocks if total_blocks > 0 else 0.0
annotation_rate(blocks) ==
    LET annotated_blocks == Len(SelectSeq(blocks, LAMBDA b : b.annotated))
    IN  IF Len(blocks) > 0 /\ annotated_blocks > 0
        THEN FloatOfRatio(BigFromInt(annotated_blocks), Len(blocks))
        ELSE FloatZero

\* (variant: the week's pull request counts reach the thresholds)
session_activity_fresh(rate) ==
    [prs_merged_7d |-> PETER_PRs_MERGED_PER_WEEK,
     prs_reviewed_7d |-> PETER_PRs_REVIEWED_PER_WEEK,
     annotation_rate |-> Some(rate)]

\* the activity record end_session hands to detect_coaching_level
session_activity(rate) ==
    [prs_merged_7d |-> 0, prs_reviewed_7d |-> 0, annotation_rate |-> Some(rate)]

\* (variant: the user takes the detected level)
level_after_detected(new_level, coaching_level) == new_level

\* the user's coaching_level once end_session has compared the detected
\* level with it
level_after(new_level, coaching_level) ==
    IF new_level = "peter" /\ coaching_level # "peter"
    THEN "peter"
    ELSE coaching_level

\* the week's CoachingProfile of the user: its place in the table, or none
ProfileOf(user_id, week) ==
    {i \in 1..Len(db.coaching_profiles) :
        /\ db.coaching_profiles[i].user_id = user_id
        /\ db.coaching_profiles[i].week_start = week}

\* end_session: the session is closed, then the week's profile is created
\* or updated from the session's work blocks and the level is re-detected
EndSession(user_id, session_id, body) ==
    \E found \in {{i \in 1..Len(db.day_sessions) :
                      /\ db.day_sessions[i].id = session_id
                      /\ db.day_sessions[i].user_id = user_id}} :
      IF found = {}
      THEN /\ call' = [fn |-> "end_session", raised |-> Some(404)]
           /\ UNCHANGED <<fpu, heap, items, tasks, rate_limit, clock,
                          chat_log, db>>
      ELSE
        \E blocks \in {SelectSeq(db.work_blocks,
                                 LAMBDA b : b.session_id = session_id)} :
        \E rate \in {annotation_rate(blocks)} :
        \E activity \in {session_activity(rate)} :
        \E new_level \in {detect_coaching_level(activity)} :
        \E level \in {level_after(new_level, db.users[user_id].coaching_level)} :
        \E at \in {ProfileOf(user_id, week_start(Today))} :
        \E profile \in {IF at = {}
                        THEN [user_id |-> user_id,
                              week_start |-> week_start(Today),
                              coaching_level |-> None]
                        ELSE db.coaching_profiles[CHOOSE i \in at : TRUE]} :
        \E updated \in {[user_id |-> user_id,
                         week_start |-> profile.week_start,
                         annotation_rate |-> rate,
                         coaching_level |->
                             IF level # db.users[user_id].coaching_level
                             THEN Some(level)
                             ELSE IF profile.coaching_level # None
                             THEN profile.coaching_level
                             ELSE Some(db.users[user_id].coaching_level)]} :
            /\ db' = [db EXCEPT
                        !.day_sessions =
                            [i \in 1..Len(@) |->
                                IF i \in found
                                THEN [@[i] EXCEPT
                                        !.ended_at = Some(clock),
                                        !.day_feedback = body.day_feedback]
                                ELSE @[i]],
                        !.coaching_profiles =
                            IF at = {} THEN Append(@, updated)
                            ELSE [i \in 1..Len(@) |->
                                    IF i \in at THEN updated ELSE @[i]],
                        !.users = [@ EXCEPT ![user_id].coaching_level = level]]
            /\ call' = [fn |-> "end_session", activity |-> activity,
                        new_level |-> new_level, raised |-> None]
            /\ UNCHANGED <<fpu, heap, items, tasks, rate_limit, clock,
                           chat_log>>

\* start_work_block: a block is added to a session of the user
StartWorkBlock(user_id, session_id, phase) ==
    /\ Len(db.work_blocks) < MaxBlocks
    /\ \E found \in {{i \in 1..Len(db.day_sessions) :
                        /\ db.day_sessions[i].id = session_id
                        /\ db.day_sessions[i].user_id = user_id}} :
        /\ db' = IF found = {} THEN db
                 ELSE [db EXCEPT !.work_blocks =
                         Append(@, [id |-> Len(@) + 1,
                                    session_id |-> session_id,
                                    phase |-> phase, annotated |-> FALSE])]
        /\ call' = [fn |-> "start_work_block",
                    raised |-> IF found = {} THEN Some(404) ELSE None]
    /\ UNCHANGED <<fpu, heap, items, tasks, rate_limit, clock, chat_log>>

\* _get_block: the block of a session of the user, or none (404)
get_block(session_id, block_id, user_id) ==
    IF \E i \in 1..Len(db.day_sessions) :
           /\ db.day_sessions[i].id = session_id
           /\ db.day_sessions[i].user_id = user_id
    THEN {i \in 1..Len(db.work_blocks) :
             /\ db.work_blocks[i].id = block_id
             /\ db.work_blocks[i].session_id = session_id}
    ELSE {}

\* update_block_phase
UpdateBlockPhase(user_id, session_id, block_id, phase) ==
    /\ \E found \in {get_block(session_id, block_id, user_id)} :
        /\ db' = [db EXCEPT !.work_blocks =
                    [i \in 1..Len(@) |->
                        IF i \in found THEN [@[i] EXCEPT !.phase = phase]
                        ELSE @[i]]]
        /\ call' = [fn |-> "update_block_phase",
                    raised |-> IF found = {} THEN Some(404) ELSE None]
    /\ UNCHANGED <<fpu, heap, items, tasks, rate_limit, clock, chat_log>>

\* end_work_block
EndWorkBlock(user_id, session_id, block_id, annotated) ==
    /\ \E found \in {get_block(session_id, block_id, user_id)} :
        /\ db' = [db EXCEPT !.work_blocks =
                    [i \in 1..Len(@) |->
                        IF i \in found
                        THEN [@[i] EXCEPT !.annotated = annotated]
                        ELSE @[i]]]
        /\ call' = [fn |-> "end_work_block",
                    raised |-> IF found = {} THEN Some(404) ELSE None]
    /\ UNCHANGED <<fpu, heap, items, tasks, rate_limit, clock, chat_log>>

\* time passes
SessionTick ==
    /\ clock < MaxNow
    /\ clock' = clock + 1
    /\ UNCHANGED <<fpu, heap, items, call, tasks, rate_limit, chat_log, db>>

SessionInit ==
    /\ fpu = FloatUnit
    /\ heap = << >>
    /\ items = << >>
    /\ call = [fn |-> "none"]
    /\ tasks = << >>
    /\ rate_limit = << >>
    /\ clock = 0
    /\ chat_log = << >>
    /\ \E levels \in [SessionUsers -> Levels] :
           db = [NoRows EXCEPT
                    !.users = [u \in SessionUsers |->
                                  [coaching_level |-> levels[u]]]]

SessionNext ==
    \/ \E user_id \in SessionUsers, body \in StartBodies :
           StartSession(user_id, body)
    \/ \E user_id \in SessionUsers, body \in EndBodies,
          session_id \in 1..(Len(db.day_sessions) + 1) :
           EndSession(user_id, session_id, body)
    \/ \E user_id \in SessionUsers,
          session_id \in 1..(Len(db.day_sessions) + 1) :
           StartWorkBlock(user_id, session_id, Some("planning"))
    \/ \E user_id \in SessionUsers, session_id \in 1..Len(db.day_sessions),
          block_id \in 1..Len(db.work_blocks) :
           UpdateBlockPhase(user_id, session_id, block_id, "coding")
    \/ \E user_id \in SessionUsers, session_id \in 1..Len(db.day_sessions),
          block_id \in 1..Len(db.work_blocks), annotated \in BOOLEAN :
           EndWorkBlock(user_id, session_id, block_id, annotated)
    \/ SessionTick

SessionSpec == SessionInit /\ [][SessionNext]_vars

(***************************************************************************)
(* Properties of confidence_score and story_points_to_tier.                *)
(***************************************************************************)
\* the item the last confidence_score call was given
ScoredItem == heap[call.item]

ScoredTier == story_points_to_tier(Get(ScoredItem, "story_points", None))

\* ten times the number a float literal stands for
Tenths(lit) ==
    CASE lit = "1.0" -> 10 [] lit = "1.3" -> 13
      [] lit = "1.5" -> 15 [] lit = "2.0" -> 20

\* the float x is the exact quotient n / d up to a relative error of 2^-50
\* (x = m * 2^e with e < 0, so this compares m * d with n * 2^-e)
NearRatio(x, n, d) ==
    LET exact == BigShl(BigFromInt(n), 0 - x.e)
        found == BigMulSmall(x.m, d, 0)
        slack == BigShr(exact, 50)
    IN  /\ BigCmp(BigAdd(found, slack, 0), exact) >= 0
        /\ BigCmp(BigAdd(exact, slack, 0), found) >= 0

\* C1: for every item, confidence_score(item, username) is the product
\* (1 / tier) * familiarity_bonus * urgency_multiplier, where tier is
\* story_points_to_tier(item.story_points), the bonus is one of 1.5, 1.3,
\* 1.0 and the multiplier one of 2.0, 1.5, 1.3, 1.0: the float returned is
\* the exact product f * u / (100 * tier) of the tenths f and u, up to the
\* rounding of three float operations, with nothing added and no cap.
C1_ScoreIsProduct ==
    call.fn = "confidence_score" =>
        \E f \in {15, 13, 10}, u \in {20, 15, 13, 10} :
            /\ f = Tenths(familiarity_bonus(ScoredItem))
            /\ u = Tenths(urgency_multiplier(ScoredItem))
            /\ NearRatio(call.ret, f * u, 100 * ScoredTier)

\* a 13-point item, commented and critical, has been scored: 0.2 * 1.5 * 2.0
C1_Witness ==
    /\ call.fn = "confidence_score"
    /\ ScoredTier = 5
    /\ Get(ScoredItem, "user_commented", FALSE)
    /\ PriorityOf(ScoredItem) = critical
    /\ NearRatio(call.ret, 300, 500)

\* the mapping the specification gives for story points
RefTier(sp) ==
    IF sp = None THEN 3
    ELSE LET n == TheValue(sp)
         IN  IF n <= 0 THEN 3
             ELSE IF n = 1 THEN 1
             ELSE IF n \in 2..3 THEN 2
             ELSE IF n \in 4..5 THEN 3
             ELSE IF n \in 6..8 THEN 4
             ELSE 5

\* C2: story_points_to_tier returns 3 for null, zero and negative story
\* points, the tier of the first threshold >= sp of the table for a
\* positive sp (1->1, 2->2, 3->2, 4->3, 5->3, 6..8->4, 9..13->5) and 5 for
\* sp > 13; the result is always in 1..5.
C2_TierMapping ==
    call.fn = "story_points_to_tier" =>
        /\ call.ret = RefTier(call.sp)
        /\ call.ret \in 1..5

\* story points between two thresholds: 4 gives the tier of threshold 5
C2_Witness ==
    /\ call.fn = "story_points_to_tier"
    /\ call.sp = Some(4)
    /\ call.ret = 3

\* the familiarity bonus the specification gives, as a literal
RefFamiliarity(item) ==
    IF Get(item, "user_commented", FALSE) THEN "1.5"
    ELSE IF Get(item, "is_assigned_to_user", FALSE) THEN "1.3"
    ELSE "1.0"

\* C3: the familiarity bonus in the score is 1.5 whenever user_commented
\* is true, whether or not the item is assigned to the user, 1.3 only when
\* user_commented is false and is_assigned_to_user is true, and 1.0
\* otherwise; the two bonuses never stack.
C3_FamiliarityPrecedence ==
    call.fn = "confidence_score" =>
        /\ call.ret = fpu.score[ScoredTier][RefFamiliarity(ScoredItem)]
                                          [urgency_multiplier(ScoredItem)]
        /\ (Get(ScoredItem, "user_commented", FALSE)
              /\ Get(ScoredItem, "is_assigned_to_user", FALSE))
           => NearRatio(call.ret,
                        15 * Tenths(urgency_multiplier(ScoredItem)),
                        100 * ScoredTier)

\* an item both commented by and assigned to the user has been scored
C3_Witness ==
    /\ call.fn = "confidence_score"
    /\ Get(ScoredItem, "user_commented", FALSE)
    /\ Get(ScoredItem, "is_assigned_to_user", FALSE)
    /\ ScoredTier = 1
    /\ urgency_multiplier(ScoredItem) = "1.0"
    /\ NearRatio(call.ret, 15, 10)

\* the urgency multiplier the specification gives, as a literal; priority
\* names are compared without regard to case
RefUrgency(item) ==
    LET p == Get(item, "priority", None)
        name == IF p = None THEN << >> ELSE Lower(TheValue(p))
    IN  IF name = critical \/ name = blocker THEN "2.0"
        ELSE IF name = high THEN "1.5"
        ELSE IF Get(item, "awaiting_review_from_user", FALSE) THEN "1.3"
        ELSE "1.0"

\* the priorities that are none of critical, blocker, high, as a field
PlainPriority ==
    {<< >>} \cup {"priority" :> p : p \in {None, Some(<< >>), Some(normal)}}

\* item with its priority field absent or replaced by a plain one
WithPriority(item, field) ==
    [k \in (DOMAIN item \ {"priority"}) \cup DOMAIN field |->
        IF k \in DOMAIN field THEN field[k] ELSE item[k]]

\* C4: the urgency multiplier in the score is 2.0 for priority critical or
\* blocker and 1.5 for priority high, whatever awaiting_review_from_user
\* is; a review request gives 1.3 only when the priority is none of these;
\* otherwise it is 1.0.  So a critical item awaiting the user's review
\* scores strictly higher than the item that differs from it only in
\* having no such priority.
C4_UrgencyPrecedence ==
    call.fn = "confidence_score" =>
        /\ call.ret = fpu.score[ScoredTier][familiarity_bonus(ScoredItem)]
                                          [RefUrgency(ScoredItem)]
        /\ (PriorityOf(ScoredItem) = critical
              /\ Get(ScoredItem, "awaiting_review_from_user", FALSE))
           => \A field \in PlainPriority :
                 FloatLess(confidence_score(WithPriority(ScoredItem, field),
                                            call.user),
                           call.ret)

\* a critical item awaiting the user's review has been scored
C4_Witness ==
    /\ call.fn = "confidence_score"
    /\ PriorityOf(ScoredItem) = critical
    /\ Get(ScoredItem, "awaiting_review_from_user", FALSE)
    /\ ScoredTier = 3
    /\ familiarity_bonus(ScoredItem) = "1.0"
    /\ NearRatio(call.ret, 200, 300)

(***************************************************************************)
(* Properties of sort_queue_math_test and recommend_top_three.             *)
(***************************************************************************)
Range(s) == {s[i] : i \in 1..Len(s)}

Count(s, x) == Cardinality({i \in 1..Len(s) : s[i] = x})

\* the confidence score of the object at ref, for the user of the last call
ScoreOf(ref) == confidence_score(heap[ref], call.user)

\* C5: sort_queue_math_test returns a permutation of its input (the same
\* items, each as often, the same length) in which confidence_score never
\* increases from front to back; the empty list gives the empty list.
C5_SortedPermutation ==
    call.fn = "sort_queue_math_test" =>
        /\ Len(call.ret) = Len(items)
        /\ \A x \in Range(items) \cup Range(call.ret) :
               Count(call.ret, x) = Count(items, x)
        /\ \A k \in 1..(Len(call.ret) - 1) :
               ~FloatLess(ScoreOf(call.ret[k]), ScoreOf(call.ret[k + 1]))
        /\ (items = << >> => call.ret = << >>)

\* a list of at least three items that was not in order has been sorted
C5_Witness ==
    /\ call.fn = "sort_queue_math_test"
    /\ Len(items) >= 3
    /\ \E k \in 1..(Len(items) - 1) :
           FloatLess(ScoreOf(items[k]), ScoreOf(items[k + 1]))
    /\ call.ret # items

\* C6: sort_queue_math_test is stable: of two input items with equal
\* confidence_score, the one that comes first in the input comes first in
\* the output.
C6_Stable ==
    call.fn = "sort_queue_math_test" =>
        \A i, j \in 1..Len(items) :
            (i < j /\ ScoreOf(items[i]) = ScoreOf(items[j])) =>
                \E a, b \in 1..Len(call.ret) :
                    /\ call.ret[a] = items[i]
                    /\ call.ret[b] = items[j]
                    /\ a < b

\* a list has been sorted in which two unlike items tie and a later item
\* outranks them both
C6_Witness ==
    /\ call.fn = "sort_queue_math_test"
    /\ \E i, j, k \in 1..Len(items) :
           /\ i < j /\ j < k
           /\ ScoreOf(items[i]) = ScoreOf(items[j])
           /\ heap[items[i]].story_points # heap[items[j]].story_points
           /\ FloatLess(ScoreOf(items[j]), ScoreOf(items[k]))

\* C7: the scorer never mutates its input: over a call of
\* sort_queue_math_test or recommend_top_three the input list keeps the
\* same objects in the same order and every input object keeps exactly its
\* fields and values (no score or explanation is added to it);
\* recommend_top_three returns new objects, which carry the two new fields.
C7_InputNotMutated ==
    [][call'.fn \in {"sort_queue_math_test", "recommend_top_three"} =>
          /\ items' = items
          /\ \A i \in 1..Len(items) : heap'[items[i]] = heap[items[i]]
          /\ call'.fn = "recommend_top_three" =>
                \A k \in 1..Len(call'.ret) :
                    /\ call'.ret[k] \notin Range(items')
                    /\ \A j \in 1..Len(call'.ret) :
                           j # k => call'.ret[j] # call'.ret[k]
                    /\ {"score", "explanation"} \subseteq
                           DOMAIN heap'[call'.ret[k]]]_vars

\* three recommendations have been returned, as three objects of the heap
\* beside the caller's
C7_Witness ==
    /\ call.fn = "recommend_top_three"
    /\ Len(call.ret) = 3
    /\ Len(heap) = Len(items) + 3
    /\ \A i \in 1..Len(items) : "score" \notin DOMAIN heap[items[i]]

\* C8: recommend_top_three returns exactly min(3, len(items)) elements:
\* none for the empty list, all of fewer than three, never more than three.
C8_MinThree ==
    call.fn = "recommend_top_three" =>
        Len(call.ret) = (IF Len(items) < 3 THEN Len(items) ELSE 3)

\* recommendations have been made from a list of more than three items
C8_Witness ==
    /\ call.fn = "recommend_top_three"
    /\ Len(items) > 3
    /\ Len(call.ret) = 3

\* C9: the result of recommend_top_three is, element by element, the
\* front of sort_queue_math_test(items): every returned item keeps every
\* field of the item in that place, the score fields never increase, and
\* no item left out has a greater confidence_score than a returned one.
C9_FrontOfSorted ==
    call.fn = "recommend_top_three" =>
        LET sorted == sort_queue_math_test(InputObjects, items, call.user).ret
            n      == Len(call.ret)
        IN  /\ n <= Len(sorted)
            /\ \A k \in 1..n :
                   LET got  == heap[call.ret[k]]
                       want == heap[sorted[k]]
                   IN  /\ DOMAIN want \subseteq DOMAIN got
                       /\ \A f \in DOMAIN want : got[f] = want[f]
            /\ \A k \in 1..(n - 1) :
                   ~FloatLess(heap[call.ret[k]].score,
                              heap[call.ret[k + 1]].score)
            /\ \A i \in Range(items) \ {sorted[k] : k \in 1..n} :
                   \A k \in 1..n : ~FloatLess(ScoreOf(sorted[k]), ScoreOf(i))

\* recommendations have been made from a list whose last item is the best
\* and whose first item is left out
C9_Witness ==
    /\ call.fn = "recommend_top_three"
    /\ Len(items) > 3
    /\ Len(call.ret) = 3
    /\ heap[call.ret[1]].number = Len(items)
    /\ \A k \in 1..3 : heap[call.ret[k]].number # 1

\* the reasons of the specification's list, in its order, that apply
ListedReasons(item) ==
    LET p    == Get(item, "priority", None)
        name == IF p = None THEN << >> ELSE Lower(TheValue(p))
        sp   == Get(item, "story_points", None)
        n    == IF sp = None THEN "" ELSE ToString(TheValue(sp))
    IN  (IF name = critical \/ name = blocker
           THEN <<"marked as critical/blocker">>
           ELSE IF name = high THEN <<"high priority">> ELSE << >>)
        \o (IF Get(item, "awaiting_review_from_user", FALSE)
              THEN <<"your review has been requested">> ELSE << >>)
        \o (IF Get(item, "is_assigned_to_user", FALSE)
              THEN <<"assigned to you">> ELSE << >>)
        \o (IF Get(item, "user_commented", FALSE)
              THEN <<"you have prior context from a comment">> ELSE << >>)
        \o (IF RefTier(sp) <= 2
              THEN <<"small scope (" \o n
                       \o " SP \\u2014 good for a focused session)">>
              ELSE IF RefTier(sp) >= 4
              THEN <<"larger scope (" \o n \o " SP \\u2014 plan accordingly)">>
              ELSE << >>)

Wrapped(reasons) == "Recommended because: " \o Join(reasons, "; ") \o "."

\* C10 as stated: the explanation attached by recommend_top_three is
\* "Recommended because: " + the reasons joined by "; " + ".", the reasons
\* being every phrase of the list that applies, in the list's order.
C10_ListedReasonsOnly ==
    call.fn = "recommend_top_three" =>
        \A k \in 1..Len(call.ret) :
            heap[call.ret[k]].explanation =
                Wrapped(ListedReasons(heap[call.ret[k]]))

\* C10, amended: the explanation attached by recommend_top_three is
\* "Recommended because: " + the reasons joined by "; " + ".", the reasons
\* being every phrase of the list that applies, in the list's order, or,
\* when none applies, the one reason "good fit based on difficulty tier
\* and queue position"; so there is always a reason.
C10_Explanation ==
    call.fn = "recommend_top_three" =>
        \A k \in 1..Len(call.ret) :
            LET listed == ListedReasons(heap[call.ret[k]])
                expl   == heap[call.ret[k]].explanation
            IN  /\ expl =
                     Wrapped(IF listed = << >>
                             THEN <<"good fit based on difficulty tier and queue position">>
                             ELSE listed)
                /\ expl # Wrapped(<< >>)

\* an item to which one phrase of each kind applies has been recommended
C10_Witness ==
    /\ call.fn = "recommend_top_three"
    /\ Len(call.ret) = 1
    /\ heap[call.ret[1]].explanation =
         "Recommended because: marked as critical/blocker; "
         \o "your review has been requested; assigned to you; "
         \o "you have prior context from a comment; "
         \o "small scope (1 SP \\u2014 good for a focused session)."

\* the text t occurs in the text s
Contains(s, t) ==
    \E i \in 1..(Len(s) - Len(t) + 1) : SubSeq(s, i, i + Len(t) - 1) = t

FallbackReason == "good fit based on difficulty tier and queue position"

\* no reason of the specification's list applies to item: its priority is
\* none of critical, blocker, high, its three flags are false, and it has
\* no scope reason (story_points is null, or its tier is 3)
NoOtherReason(item) ==
    LET p    == Get(item, "priority", None)
        name == IF p = None THEN << >> ELSE Lower(TheValue(p))
        sp   == Get(item, "story_points", None)
    IN  /\ name \notin {critical, blocker, high}
        /\ ~Get(item, "awaiting_review_from_user", FALSE)
        /\ ~Get(item, "is_assigned_to_user", FALSE)
        /\ ~Get(item, "user_commented", FALSE)
        /\ (sp = None \/ RefTier(sp) = 3)

\* C11: the fallback reason "good fit based on difficulty tier and queue
\* position" occurs in an explanation if and only if no other reason
\* applies, and when it occurs it is the only reason.
C11_FallbackIffNoReason ==
    call.fn = "recommend_top_three" =>
        \A k \in 1..Len(call.ret) :
            LET got == heap[call.ret[k]]
            IN  /\ Contains(got.explanation, FallbackReason)
                       <=> NoOtherReason(got)
                /\ Contains(got.explanation, FallbackReason)
                       => got.explanation = Wrapped(<<FallbackReason>>)

\* a 5-point item (tier 3) of normal priority and no flag has been
\* recommended with the fallback reason
C11_Witness ==
    /\ call.fn = "recommend_top_three"
    /\ Len(call.ret) = 1
    /\ Get(heap[call.ret[1]], "story_points", None) = Some(5)
    /\ Get(heap[call.ret[1]], "priority", None) = Some(normal)
    /\ heap[call.ret[1]].explanation = Wrapped(<<FallbackReason>>)

\* the input object at ref is critical with one story point
CriticalOnePoint(ref) ==
    /\ Get(heap[ref], "priority", None) = Some(critical)
    /\ Get(heap[ref], "story_points", None) = Some(1)

\* the last result holds a copy of the input object at ref
Recommended(ref) ==
    \E k \in 1..Len(call.ret) :
        \A f \in DOMAIN heap[ref] :
            /\ f \in DOMAIN heap[call.ret[k]]
            /\ heap[call.ret[k]][f] = heap[ref][f]

\* the places of the input list whose item goes before the one at place i
\* in the ranking: a greater score, or the same score and an earlier place
Ahead(i) ==
    {j \in 1..Len(items) :
        \/ FloatLess(ScoreOf(items[i]), ScoreOf(items[j]))
        \/ (j < i /\ ScoreOf(items[j]) = ScoreOf(items[i]))}

\* C12 as stated: whatever the other items of the queue are, the result of
\* recommend_top_three contains every item of the queue that has priority
\* critical and one story point.
C12_CriticalAlwaysRecommended ==
    call.fn = "recommend_top_three" =>
        \A i \in 1..Len(items) :
            CriticalOnePoint(items[i]) => Recommended(items[i])

\* C12, amended: the result of recommend_top_three contains an item of
\* the queue with priority critical and one story point if and only if
\* fewer than three items of the queue go before it in the ranking (score
\* higher, or score the same and come earlier); so it is always contained
\* when at most two other items score 2.0 or more.
C12_CriticalRecommended ==
    call.fn = "recommend_top_three" =>
        \A i \in 1..Len(items) :
            CriticalOnePoint(items[i]) =>
                (Recommended(items[i]) <=> Cardinality(Ahead(i)) < 3)

\* a queue of more than three items whose last item is the critical
\* one-point item, with three lesser items before it, has been served
C12_Witness ==
    /\ call.fn = "recommend_top_three"
    /\ Len(items) > 3
    /\ CriticalOnePoint(items[Len(items)])
    /\ \A i \in 1..3 : ~CriticalOnePoint(items[i])
    /\ Recommended(items[Len(items)])
    /\ heap[call.ret[1]].number = Len(items)

(***************************************************************************)
(* Properties of the coaching policy.                                      *)
(***************************************************************************)
\* the metric k of the activity record a, a missing one counting as 0
Metric(a, k) == IF k \in DOMAIN a THEN a[k] ELSE 0

\* the annotation rate of the activity record a is at least 4 / 5, as an
\* exact number: a missing or null rate counts as 0, and a float m * 2^e
\* (e < 0) is at least 4 / 5 when 5 * m >= 4 * 2^-e
RateAtLeastFourFifths(a) ==
    /\ "annotation_rate" \in DOMAIN a
    /\ a.annotation_rate # None
    /\ LET x == TheValue(a.annotation_rate)
       IN  /\ x # FloatZero
           /\ BigCmp(BigMulSmall(x.m, 5, 0),
                     BigShl(BigFromInt(4), 0 - x.e)) >= 0

\* C13: detect_coaching_level returns "peter" if and only if
\* prs_merged_7d >= 3, prs_reviewed_7d >= 5 and annotation_rate >= 0.8
\* all hold, and "ransom" otherwise; a missing metric counts as 0.
C13_PeterIffThresholds ==
    call.fn = "detect_coaching_level" =>
        /\ call.ret \in {"peter", "ransom"}
        /\ call.ret = "peter" <=>
              /\ Metric(call.activity, "prs_merged_7d") >= 3
              /\ Metric(call.activity, "prs_reviewed_7d") >= 5
              /\ RateAtLeastFourFifths(call.activity)

\* the record with every metric at its threshold has been classified
C13_Witness ==
    /\ call.fn = "detect_coaching_level"
    /\ call.activity = [prs_merged_7d |-> 3, prs_reviewed_7d |-> 5,
                        annotation_rate |-> Some(fpu.rate.four_fifths)]
    /\ call.ret = "peter"

\* C14: for level "peter", should_prompt is true if and only if the phase
\* is one of coding, debugging, review and more than 15 minutes have
\* passed (15 is false, 16 is true); for every other phase it is false
\* whatever the minutes.
C14_PeterPrompt ==
    (call.fn = "should_prompt" /\ call.level = "peter") =>
        /\ call.ret <=>
              /\ call.phase = "coding" \/ call.phase = "debugging"
                    \/ call.phase = "review"
              /\ call.minutes >= 16
        /\ call.minutes = 15 => ~call.ret
        /\ call.phase \in {"planning", "idle", "lunch"} => ~call.ret

\* peter has been prompted after 16 idle minutes of coding
C14_Witness ==
    /\ call.fn = "should_prompt"
    /\ call.level = "peter"
    /\ call.phase = "coding"
    /\ call.minutes = 16
    /\ call.ret

\* C15: for level "ransom", should_prompt is true if and only if the
\* minutes are 0 or a positive multiple of 25, and for minutes >= 0 the
\* answer is the same for every phase.
C15_RansomPrompt ==
    (call.fn = "should_prompt" /\ call.level = "ransom") =>
        /\ call.ret <=>
              \/ call.minutes = 0
              \/ \E q \in 1..call.minutes : call.minutes = 25 * q
        /\ call.minutes >= 0 =>
              \A phase \in Phases :
                  should_prompt("ransom", call.minutes, phase) = call.ret

\* ransom has been prompted at the second pomodoro boundary while planning
C15_Witness ==
    /\ call.fn = "should_prompt"
    /\ call.level = "ransom"
    /\ call.phase = "planning"
    /\ call.minutes = 50
    /\ call.ret

(***************************************************************************)
(* Further properties of the scorer.                                       *)
(***************************************************************************)
\* the float x is a number greater than 0: not 0.0, and a normal float
\* (floats carry no sign here: a quotient of 1.0 by a positive divisor
\* and products of positive literals)
PositiveFloat(x) == x # FloatZero /\ BigBitLen(x.m) = 53

\* C16: confidence_score is strictly positive for every item, whatever its
\* story points (null, 0 and negative included), priority and flags: the
\* divisor tier is at least 1 and the score is a float above 0.
C16_ScorePositive ==
    call.fn = "confidence_score" =>
        /\ ScoredTier >= 1
        /\ PositiveFloat(call.ret)

\* an item with negative story points has been scored
C16_Witness ==
    /\ call.fn = "confidence_score"
    /\ "story_points" \in DOMAIN ScoredItem
    /\ ScoredItem.story_points # None
    /\ TheValue(ScoredItem.story_points) < 0
    /\ PositiveFloat(call.ret)

\* how the float x (m * 2^e, e < 0) compares with the integer n: -1, 0, 1
CmpInt(x, n) == BigCmp(x.m, BigShl(BigFromInt(n), 0 - x.e))

\* C17: the maximum of confidence_score is 3.0: every item scores at most
\* 3.0, and an item scores exactly 3.0 if and only if its story points
\* are 1 (tier 1), user_commented is true and its priority is critical or
\* blocker.
C17_MaximumThree ==
    call.fn = "confidence_score" =>
        /\ CmpInt(call.ret, 3) <= 0
        /\ CmpInt(call.ret, 3) = 0 <=>
              /\ Get(ScoredItem, "story_points", None) = Some(1)
              /\ Get(ScoredItem, "user_commented", FALSE)
              /\ RefUrgency(ScoredItem) = "2.0"

\* a one-point, commented blocker has scored 3.0
C17_Witness ==
    /\ call.fn = "confidence_score"
    /\ Get(ScoredItem, "priority", None) = Some(blocker)
    /\ CmpInt(call.ret, 3) = 0

\* the spellings of each priority name the scorer knows
Spellings ==
    { {critical, <<"C", "r", "i", "t", "i", "c", "a", "l">>,
       <<"C", "R", "I", "T", "I", "C", "A", "L">>},
      {blocker, <<"B", "l", "o", "c", "k", "e", "r">>,
       <<"B", "L", "O", "C", "K", "E", "R">>},
      {high, <<"H", "i", "g", "h">>, <<"H", "I", "G", "H">>} }

\* the records that differ from item at most in the letter case of its
\* priority
Respelt(item) ==
    {WithPriority(item, "priority" :> Some(q)) :
        q \in UNION {S \in Spellings :
                        /\ "priority" \in DOMAIN item
                        /\ item.priority # None
                        /\ TheValue(item.priority) \in S}}

\* C18: priority matching is case-insensitive: items that differ only in
\* the letter case of priority (critical, Critical, CRITICAL; likewise
\* blocker and high) get the same confidence_score and the same
\* explanation.
C18_CaseInsensitive ==
    /\ call.fn = "confidence_score" =>
          \A other \in Respelt(ScoredItem) :
              confidence_score(other, call.user) = call.ret
    /\ call.fn = "recommend_top_three" =>
          \A k \in 1..Len(call.ret) :
              \A other \in Respelt(heap[call.ret[k]]) :
                  /\ RoundScore(confidence_score(other, call.user))
                         = heap[call.ret[k]].score
                  /\ build_explanation(other, call.user)
                         = heap[call.ret[k]].explanation

\* an item whose priority is spelt CRITICAL has been recommended as a
\* critical one
C18_Witness ==
    /\ call.fn = "recommend_top_three"
    /\ Len(call.ret) = 1
    /\ Get(heap[call.ret[1]], "priority", None)
           = Some(<<"C", "R", "I", "T", "I", "C", "A", "L">>)
    /\ Contains(heap[call.ret[1]].explanation, "marked as critical/blocker")

\* item with its missing fields set to their defaults: story_points null,
\* priority "normal", the flags false; a null priority is set to "normal"
Filled(item) ==
    [k \in DOMAIN item \cup {"story_points", "priority", "is_assigned_to_user",
                             "user_commented", "awaiting_review_from_user"} |->
        IF k \in DOMAIN item /\ ~(k = "priority" /\ item[k] = None)
        THEN item[k]
        ELSE IF k = "story_points" THEN None
        ELSE IF k = "priority" THEN Some(normal)
        ELSE FALSE]

\* C19: the scorer is total over records with absent fields: whatever
\* subset of the five fields is missing (or priority is null),
\* confidence_score and recommend_top_three return a value, which is that
\* of the item with the missing fields set to story_points null,
\* priority "normal" and the flags false; the empty record scores 1/3.
C19_AbsentFieldsDefault ==
    /\ call.fn = "confidence_score" =>
          /\ PositiveFloat(call.ret)
          /\ call.ret = confidence_score(Filled(ScoredItem), call.user)
          /\ ScoredItem = << >> => NearRatio(call.ret, 1, 3)
    /\ call.fn = "recommend_top_three" =>
          \A k \in 1..Len(call.ret) :
              LET got  == heap[call.ret[k]]
                  full == Filled([f \in DOMAIN got \ {"score", "explanation"}
                                     |-> got[f]])
              IN  /\ got.score = RoundScore(confidence_score(full, call.user))
                  /\ got.explanation = build_explanation(full, call.user)

\* the empty record has been scored
C19_Witness ==
    /\ call.fn = "confidence_score"
    /\ ScoredItem = << >>
    /\ NearRatio(call.ret, 1, 3)

(***************************************************************************)
(* Determinism.                                                            *)
(***************************************************************************)
\* the last call, made again now on the same arguments, returns what it
\* returned
SameAgain ==
    /\ call.fn = "story_points_to_tier" =>
          story_points_to_tier(call.sp) = call.ret
    /\ call.fn = "confidence_score" =>
          confidence_score(heap[call.item], call.user) = call.ret
    /\ call.fn = "sort_queue_math_test" =>
          sort_queue_math_test(InputObjects, items, call.user)
              = [items |-> items, ret |-> call.ret]
    /\ call.fn = "recommend_top_three" =>
          recommend_top_three(InputObjects, items, call.user)
              = [heap |-> heap, items |-> items, ret |-> call.ret]
    /\ call.fn = "detect_coaching_level" =>
          detect_coaching_level(call.activity) = call.ret
    /\ call.fn = "should_prompt" =>
          should_prompt(call.level, call.minutes, call.phase) = call.ret

\* a call leaves behind nothing but its result: the float unit, the
\* caller's list and the caller's objects are as they were
NothingWritten ==
    /\ fpu' = fpu
    /\ items' = items
    /\ \A i \in 1..Len(items) : heap'[items[i]] = heap[items[i]]

Deref(h, refs) == [i \in 1..Len(refs) |-> h[refs[i]]]

\* what the call of a caller that has returned returns when it runs alone on
\* the shared list
Alone(task) ==
    IF task.fn = "sort_queue_math_test"
    THEN Deref(heap, sort_queue_math_test(InputObjects, items, task.user).ret)
    ELSE IF task.fn = "recommend_top_three"
    THEN LET r == recommend_top_three(InputObjects, items, task.user)
         IN  Deref(r.heap, r.ret)
    ELSE IF task.fn = "detect_coaching_level"
    THEN detect_coaching_level(task.args)
    ELSE should_prompt(task.args.level, task.args.minutes, task.args.phase)

Returned(task) ==
    IF task.fn \in {"sort_queue_math_test", "recommend_top_three"}
    THEN Deref(heap, task.result)
    ELSE task.result

ResultAsAlone ==
    \A t \in DOMAIN tasks :
        tasks[t].pc = "done" => Returned(tasks[t]) = Alone(tasks[t])

SharedInputUnchanged ==
    /\ items' = items
    /\ SubSeq(heap', 1, Len(items')) = InputObjects

\* C21: with the steps of several callers of sort_queue_math_test,
\* recommend_top_three, detect_coaching_level and should_prompt interleaved
\* in any order on the same list, every call returns what it returns when
\* run alone, and no step changes the shared list or its items.
C21_ConcurrentCallersIsolated ==
    []ResultAsAlone /\ [][SharedInputUnchanged]_vars

\* both callers have returned from recommend_top_three on the same list of
\* four items, and their loops were interleaved: the copies one caller made
\* are not next to each other in the heap
C21_Witness ==
    /\ Len(items) = 4
    /\ \A t \in DOMAIN tasks :
           /\ tasks[t].pc = "done"
           /\ tasks[t].fn = "recommend_top_three"
           /\ Len(tasks[t].result) = 3
    /\ \E t \in DOMAIN tasks :
           tasks[t].result[2] # tasks[t].result[1] + 1

(***************************************************************************)
(* Properties of the rounded score.                                        *)
(***************************************************************************)
\* the integer nearest to r * 10^4, for a float r below 3.2768
TicksOf(r) ==
    LET k == BigRoundShr(BigMulSmall(r.m, 10000, 0), 0 - r.e, FALSE)
    IN  IF k = << >> THEN 0 ELSE k[1]

\* r is the float of a decimal with four places, k / 10^4, and no other
\* such decimal is nearer to x: |x * 10^4 - k| <= 1/2, exactly
RoundedToFourPlaces(x, r) ==
    LET k    == TicksOf(r)
        x2   == BigMulSmall(x.m, 20000, 0)
        k2   == BigShl(BigFromInt(2 * k), 0 - x.e)
        half == BigShl(<<1>>, 0 - x.e)
    IN  /\ NearRatio(r, k, 10000)
        /\ BigCmp(x2, BigAdd(k2, half, 0)) <= 0
        /\ BigCmp(k2, BigAdd(x2, half, 0)) <= 0

\* |r - x| <= 0.00005 = 1 / 20000, exactly
WithinHalfTick(x, r) ==
    LET e   == IF x.e < r.e THEN x.e ELSE r.e
        xs  == BigMulSmall(BigShl(x.m, x.e - e), 20000, 0)
        rs  == BigMulSmall(BigShl(r.m, r.e - e), 20000, 0)
        one == BigShl(<<1>>, 0 - e)
    IN  /\ BigCmp(xs, BigAdd(rs, one, 0)) <= 0
        /\ BigCmp(rs, BigAdd(xs, one, 0)) <= 0

\* the dicts recommend_top_three returned, if it was the last call
Enriched ==
    IF call.fn = "recommend_top_three"
    THEN [i \in 1..Len(call.ret) |-> heap[call.ret[i]]]
    ELSE << >>

\* C22: the score recommend_top_three attaches is confidence_score(item)
\* rounded to four decimal places; it is within 0.00005 of the unrounded
\* score, and of two returned items the one with the greater unrounded score
\* never has the smaller rounded score.
C22_ScoreRoundedToFourPlaces ==
    /\ \A i \in 1..Len(Enriched) :
           LET x == confidence_score(Enriched[i], call.user)
               r == Enriched[i]["score"]
           IN  RoundedToFourPlaces(x, r) /\ WithinHalfTick(x, r)
    /\ \A i, j \in 1..Len(Enriched) :
           FloatLess(confidence_score(Enriched[j], call.user),
                     confidence_score(Enriched[i], call.user))
               => ~FloatLess(Enriched[i]["score"], Enriched[j]["score"])

\* an item scoring 1/3 was returned with the score 0.3333, which is not the
\* unrounded score
C22_Witness ==
    /\ Len(Enriched) = 1
    /\ NearRatio(confidence_score(Enriched[1], call.user), 1, 3)
    /\ TicksOf(Enriched[1]["score"]) = 3333
    /\ Enriched[1]["score"] # confidence_score(Enriched[1], call.user)

(***************************************************************************)
(* Properties of the chat rate limiter.                                    *)
(***************************************************************************)
\* the times of the requests of a log that were accepted
AcceptedAt(log) ==
    LET ok == SelectSeq(log, LAMBDA q : q.raised = None)
    IN  [i \in 1..Len(ok) |-> ok[i].at]

\* how many of the times lie in lo .. hi
CountIn(times, lo, hi) ==
    Cardinality({i \in 1..Len(times) : lo <= times[i] /\ times[i] <= hi})

\* every half-open interval of 60 seconds holds at most CHAT_RATE_LIMIT
\* accepted requests of a user: it is enough to look at the intervals that
\* start at an accepted request
WindowsWithinLimit ==
    \A user_id \in DOMAIN chat_log :
        LET times == AcceptedAt(chat_log[user_id])
        IN  \A t \in {times[i] : i \in 1..Len(times)} :
                CountIn(times, t, t + WINDOW_SECONDS - 1) <= CHAT_RATE_LIMIT

\* a call of _check_rate_limit has just returned or raised: it is the last
\* entry of its user's log
JustChecked == call.fn = "_check_rate_limit" /\ call.now = clock

\* the accepted requests of the last caller within the 60 seconds before
\* the last call, the call itself not counted
AcceptedBefore ==
    LET log   == chat_log[call.user_id]
        times == AcceptedAt(SubSeq(log, 1, Len(log) - 1))
    IN  CountIn(times, call.now - WINDOW_SECONDS + 1, call.now)

FullWindowRejected ==
    (JustChecked /\ AcceptedBefore >= CHAT_RATE_LIMIT)
        => call.raised = Some(429)

\* a request leaves the other users' timestamps and logs as they were
OthersUntouched ==
    \A user_id \in ChatUsers :
        (clock' = clock /\ user_id # call'.user_id)
            => /\ Get(rate_limit', user_id, << >>)
                    = Get(rate_limit, user_id, << >>)
               /\ Get(chat_log', user_id, << >>) = Get(chat_log, user_id, << >>)

\* C23: no half-open interval of 60 seconds holds more than 20 accepted
\* requests of one user; a request that finds 20 accepted requests of its
\* user within the preceding 60 seconds is rejected with 429; and a request
\* changes nothing that another user's outcome depends on.
C23_ChatRateLimit ==
    /\ [](WindowsWithinLimit /\ FullWindowRejected)
    /\ [][OthersUntouched]_vars

\* ann was rejected with 20 accepted requests behind her, spread over two
\* instants, and bob's request after that was accepted
C23_Witness ==
    /\ JustChecked
    /\ call.user_id = "bob"
    /\ call.raised = None
    /\ "ann" \in DOMAIN chat_log
    /\ LET log == chat_log["ann"]
       IN  /\ log # << >>
           /\ log[Len(log)].raised = Some(429)
           /\ log[Len(log)].at = call.now
           /\ Len(AcceptedAt(log)) = CHAT_RATE_LIMIT
           /\ log[1].at < call.now

\* a step in which _check_rate_limit raised 429
Rejecting ==
    /\ clock' = clock
    /\ chat_log' # chat_log
    /\ call'.raised = Some(429)

\* the rejected call stores the caller's timestamps of the last 60 seconds
\* and nothing else: none is added, none younger than 60 seconds is dropped
RejectedNotRecorded ==
    Rejecting =>
        LET before == Get(rate_limit, call'.user_id, << >>)
            after  == Get(rate_limit', call'.user_id, << >>)
        IN  /\ after = SelectSeq(before, LAMBDA t : clock - t < WINDOW_SECONDS)
            /\ Len(after) <= Len(before)
            /\ AcceptedAt(chat_log'[call'.user_id])
                   = AcceptedAt(chat_log[call'.user_id])

FewerThanLimitAccepted ==
    (JustChecked /\ AcceptedBefore < CHAT_RATE_LIMIT) => call.raised = None

\* C30: a call of _check_rate_limit that raises 429 adds no timestamp for the
\* user and drops only timestamps that are not within the last 60 seconds;
\* and a request that finds fewer than 20 accepted requests of its user
\* within the preceding 60 seconds is accepted, whatever was rejected before.
C30_RejectedNotRecorded ==
    /\ []FewerThanLimitAccepted
    /\ [][RejectedNotRecorded]_vars

\* ann's request is accepted although the requests she made before it, less
\* than 60 seconds ago, were all rejected
C30_Witness ==
    /\ JustChecked
    /\ call.user_id = "ann"
    /\ call.raised = None
    /\ LET log == chat_log["ann"]
       IN  /\ Len(log) > MaxRetries
           /\ \A i \in 1..(Len(log) - 1) :
                  log[i].raised = Some(429) /\ log[i].at < clock

(***************************************************************************)
(* Properties of the daily puzzle.                                         *)
(***************************************************************************)
\* get_daily_puzzle was the last call and returned
PuzzleReturned ==
    call.fn = "get_daily_puzzle" /\ call.raised = None

\* the stored attempt that call answers from
AskedAttempt ==
    CHOOSE a \in AttemptsOf(db, PuzzleUser, call.puzzle_date) : TRUE

\* the attempts that differ from attempt at most in the answer and the
\* explanation of the puzzle
SecretVariants(attempt) ==
    {[attempt EXCEPT !.puzzle_content = secret @@ DictPop(DictPop(@, "answer"),
                                                          "explanation")] :
        secret \in {<< >>, [answer |-> "a1"], [answer |-> "a2"],
                    [explanation |-> "e2"],
                    [answer |-> "a2", explanation |-> "e1"]}}

\* C24: what get_daily_puzzle returns, for a puzzle just generated as for a
\* stored one, has exactly the fields puzzle_date, puzzle_type, completed,
\* question, hint and type, and is the same for every stored puzzle that
\* differs only in its answer or explanation.
C24_AnswerNeverReturned ==
    PuzzleReturned =>
        /\ DOMAIN TheValue(call.ret)
               = {"puzzle_date", "puzzle_type", "completed", "question",
                  "hint", "type"}
        /\ \A other \in SecretVariants(AskedAttempt) :
               safe_puzzle_content(other) = TheValue(call.ret)

\* a stored puzzle with an answer and an explanation was returned, after it
\* was completed
C24_Witness ==
    /\ PuzzleReturned
    /\ call.stored
    /\ TheValue(call.ret).completed
    /\ "answer" \in DOMAIN AskedAttempt.puzzle_content
    /\ "explanation" \in DOMAIN AskedAttempt.puzzle_content

(***************************************************************************)
(* Properties of the weekly badge.                                         *)
(***************************************************************************)
\* submit_puzzle_answer was the last call and returned a badge
BadgeReturned ==
    /\ call.fn = "submit_puzzle_answer"
    /\ call.raised = None
    /\ TheValue(call.ret).badge_earned # None

\* the user's completed attempts of the week of puzzle_date whose date is a
\* Monday, Tuesday, Wednesday, Thursday or Friday
WeekdayCompletions(user_id, puzzle_date) ==
    {a \in db.puzzle_attempts :
        /\ a.user_id = user_id
        /\ a.completed
        /\ week_start(a.puzzle_date) = week_start(puzzle_date)
        /\ Weekday(a.puzzle_date) <= 4}

\* C26: whenever submit_puzzle_answer returns a badge, at least 5 of the
\* user's completed attempts of that week have a weekday puzzle_date.
C26_BadgeNeedsFiveWeekdays ==
    BadgeReturned =>
        Cardinality(WeekdayCompletions(PuzzleUser, call.puzzle_date)) >= 5

\* a badge was returned for a week with five completed weekdays
C26_Witness ==
    /\ BadgeReturned
    /\ Cardinality(WeekdayCompletions(PuzzleUser, call.puzzle_date)) = 5

\* the user's badges of the week of puzzle_date
WeekBadges(puzzle_date) == existing_badge(db, PuzzleUser, puzzle_date)

\* a submission that began when the week's badge existed has returned
LateSubmissionDone(t) ==
    /\ tasks[t].pc = "done"
    /\ tasks[t].fn = "submit_puzzle_answer"
    /\ tasks[t].late
    /\ tasks[t].raised = None

\* C27: after any submit_puzzle_answer calls of one user, their database
\* reads and writes interleaved in any order, at most one badge
\* weekly_puzzle_<week_start> exists for the user, and a submission made
\* after the badge exists returns badge_earned = none.
C27_BadgeAtMostOnce ==
    /\ \A puzzle_date \in WeekDays : Len(WeekBadges(puzzle_date)) <= 1
    /\ \A t \in DOMAIN tasks :
           LateSubmissionDone(t) =>
               TheValue(tasks[t].ret).badge_earned = None

\* a submission that began after the badge was awarded returned without a
\* badge, and the week has one badge
C27_Witness ==
    /\ Len(WeekBadges(4)) = 1
    /\ \E t \in DOMAIN tasks :
           /\ LateSubmissionDone(t)
           /\ Cardinality(completed_this_week(db, PuzzleUser, 4)) >= 5

(***************************************************************************)
(* Properties of the day session's handlers (SessionSpec).                 *)
(***************************************************************************)
EndSessionDone == call.fn = "end_session" /\ call.raised = None

\* the activity handed to detect_coaching_level has no pull requests, and
\* the detected level is "ransom"
DetectedRansom ==
    EndSessionDone =>
        /\ call.activity.prs_merged_7d = 0
        /\ call.activity.prs_reviewed_7d = 0
        /\ call.new_level = "ransom"

\* an end_session step leaves every user's coaching_level as it was
LevelKeptByEndSession ==
    call'.fn = "end_session" =>
        \A u \in SessionUsers :
            db'.users[u].coaching_level = db.users[u].coaching_level

PeterStaysPeter ==
    \A u \in SessionUsers :
        db.users[u].coaching_level = "peter" =>
            db'.users[u].coaching_level = "peter"

\* C25: the coaching level is never downgraded automatically: a user who
\* is "peter" before end_session is "peter" after it, for every session
\* and every annotation rate, and over any sequence of session and
\* work-block operations a "peter" user never becomes "ransom" again
C25_NeverDowngraded == [][PeterStaysPeter]_vars

\* end_session of a "peter" user whose session has no annotated block
C25_Witness ==
    /\ EndSessionDone
    /\ call.activity.annotation_rate = Some(FloatZero)
    /\ \E u \in SessionUsers : db.users[u].coaching_level = "peter"

\* at most one DaySession per user and date, and ids are not shared
OneSessionPerUserAndDate ==
    \A i, j \in 1..Len(db.day_sessions) :
        \/ i = j
        \/ /\ db.day_sessions[i].id # db.day_sessions[j].id
           /\ \/ db.day_sessions[i].user_id # db.day_sessions[j].user_id
              \/ db.day_sessions[i].date # db.day_sessions[j].date

\* today's session of the user of the start_session call, before the call
TodaysSession(row) ==
    /\ call'.fn = "start_session"
    /\ row.user_id = call'.user_id
    /\ row.date = Today

\* start_session on an existing session adds no session, keeps every
\* session's life cycle and gives today's session the request's repository
LifecycleKept ==
    (\E i \in 1..Len(db.day_sessions) : TodaysSession(db.day_sessions[i])) =>
        /\ Len(db'.day_sessions) = Len(db.day_sessions)
        /\ \A i \in 1..Len(db.day_sessions) :
            /\ db'.day_sessions[i].id = db.day_sessions[i].id
            /\ db'.day_sessions[i].user_id = db.day_sessions[i].user_id
            /\ db'.day_sessions[i].date = db.day_sessions[i].date
            /\ db'.day_sessions[i].started_at = db.day_sessions[i].started_at
            /\ db'.day_sessions[i].ended_at = db.day_sessions[i].ended_at
            /\ db'.day_sessions[i].day_feedback = db.day_sessions[i].day_feedback
            /\ TodaysSession(db.day_sessions[i]) =>
                /\ db'.day_sessions[i].repo_owner = call'.body.owner
                /\ db'.day_sessions[i].repo_name = call'.body.repo
            /\ ~TodaysSession(db.day_sessions[i]) =>
                db'.day_sessions[i] = db.day_sessions[i]

=============================================================================
